---- MODULE Spec2Model ----
(***************************************************************************)
(* Model of the ATEM UDP client (library/src/ATEM.cpp, ATEM.h): the        *)
(* connection state machine, the reliability layer (sequence numbers, ACK, *)
(* retransmission ring buffer) and the inbound command dispatcher.         *)
(*                                                                         *)
(* Frames are sequences of bytes; TLA+ sequences are 1-based, so the C     *)
(* expression buffer[i] is written b[i+1].  Time is counted in ticks and   *)
(* the two intervals of ATEM.h are scaled to a few ticks.  The code reads  *)
(* its timestamps only in differences millis() - t, so the model keeps     *)
(* each difference (the time since the event) in place of the timestamp,   *)
(* and stops counting once it is past the interval it is compared with.    *)
(***************************************************************************)
EXTENDS Integers, Sequences, FiniteSets, TLC

(***************************************************************************)
(* Bounds of the model.                                                    *)
(***************************************************************************)
\* number of slots of the retransmission ring buffer (100 in ATEM.h)
MAX_RETRANSMIT_PACKETS == 2
\* heartbeat interval in ticks (500 ms in ATEM.h)
HEARTBEAT_INTERVAL == 1
\* handshake and inbound-silence timeout in ticks (5000 ms in ATEM.h)
CONNECTION_TIMEOUT == 2
\* reliable sends stop when the local packet id reaches MaxSeq
MaxSeq == 4
\* number of connect()/begin() calls in one behaviour
MaxConnects == 2

(***************************************************************************)
(* Program constants.                                                      *)
(***************************************************************************)
HEADER_SIZE == 12
MAX_PACKET_SIZE == 1500
FLAG_ACK_REQUEST == 1
FLAG_NEW_SESSION_ID == 2
FLAG_IS_RETRANSMIT == 4
FLAG_RETRANSMIT_REQUEST == 8
FLAG_ACK_REPLY == 16
InitialSessionId == 21419
InitialLocalPacketId == 768

ATEM_DISCONNECTED == "ATEM_DISCONNECTED"
ATEM_CONNECTING == "ATEM_CONNECTING"
ATEM_CONNECTED == "ATEM_CONNECTED"
ATEM_ERROR == "ATEM_ERROR"

(***************************************************************************)
(* Byte arithmetic.                                                        *)
(***************************************************************************)
U16Mod == 65536

\* (x >> 8) & 0xFF
HiByte(x) == (x \div 256) % 256

\* x & 0xFF
LoByte(x) == x % 256

\* (b[i] << 8) | b[i+1] for a 0-based offset i
ReadU16(b, i) == b[i + 1] * 256 + b[i + 2]

\* (flags & mask) != 0 for a one-bit mask
HasFlag(flags, mask) == (flags \div mask) % 2 = 1

\* SubSeq with a 0-based offset and a length
Slice(b, off, n) == SubSeq(b, off + 1, off + n)

(***************************************************************************)
(* Outbound frame builders.                                                *)
(***************************************************************************)
\* the literal of connect()
hello_packet ==
  <<16, 20, 83, 171, 0, 0, 0, 0, 0, 58, 0, 0, 1, 0, 0, 0, 0, 0, 0, 0>>

\* the 4-byte probe of begin()
test_packet == <<0, 4, 0, 0>>

\* opcode | length, as the builders compute it
OpcodeAndLength(flag, length) == flag * 2048 + length

\* the 12 header bytes as sendHeartbeat and the control operations fill
\* them, for any flags: opcode = flags << 11 in 16 bits
BuildHeader(flags, length, sid, seq) ==
  << HiByte(OpcodeAndLength(flags, length) % U16Mod),
     LoByte(OpcodeAndLength(flags, length) % U16Mod),
     HiByte(sid), LoByte(sid), 0, 0, 0, 0, 0, 0, HiByte(seq), LoByte(seq) >>

HeartbeatPacket(sid, lid) ==
  << HiByte(OpcodeAndLength(FLAG_ACK_REQUEST, 12)),
     LoByte(OpcodeAndLength(FLAG_ACK_REQUEST, 12)),
     HiByte(sid), LoByte(sid), 0, 0, 0, 0, 0, 0, HiByte(lid), LoByte(lid) >>

\* a variant that puts the acknowledged sequence in bytes 6-7
AckPacket_SequenceAtSix(sid, packet_id) ==
  << 128, 12, HiByte(sid), LoByte(sid),
     0, 0, HiByte(packet_id), LoByte(packet_id), 0, 0, 0, 0 >>

AckPacket(sid, packet_id) ==
  << 128, 12, HiByte(sid), LoByte(sid),
     HiByte(packet_id), LoByte(packet_id), 0, 0, 0, 0, 0, 0 >>

TagCPgI == <<67, 80, 103, 73>>
TagCPvI == <<67, 80, 118, 73>>
TagDCut == <<68, 67, 117, 116>>
TagDAut == <<68, 65, 117, 116>>
TagPrgI == <<80, 114, 103, 73>>
TagPrvI == <<80, 114, 118, 73>>

\* a variant whose block length does not count the 8-byte sub-header
CommandPacket_PayloadLength(tag, sid, lid, value) ==
  << HiByte(OpcodeAndLength(FLAG_ACK_REQUEST, 24)),
     LoByte(OpcodeAndLength(FLAG_ACK_REQUEST, 24)),
     HiByte(sid), LoByte(sid), 0, 0, 0, 0, 0, 0, HiByte(lid), LoByte(lid) >>
  \o <<0, 4, 0, 0>> \o tag \o <<0, 0, HiByte(value), LoByte(value)>>

\* the 24-byte frame of changeProgramInput, changePreviewInput, cut and
\* autoTransition: header, then a 12-byte command block
CommandPacket(tag, sid, lid, value) ==
  << HiByte(OpcodeAndLength(FLAG_ACK_REQUEST, 24)),
     LoByte(OpcodeAndLength(FLAG_ACK_REQUEST, 24)),
     HiByte(sid), LoByte(sid), 0, 0, 0, 0, 0, 0, HiByte(lid), LoByte(lid) >>
  \o <<0, 12, 0, 0>> \o tag \o <<0, 0, HiByte(value), LoByte(value)>>

(***************************************************************************)
(* Frames the peer (or anybody else on the network) may send.              *)
(***************************************************************************)
SidA == 4660
SidB == 513

\* a 12-byte command block as the switcher sends it: length, two reserved
\* bytes, tag, ME index, input id
Block(tag, value) ==
  <<0, 12, 0, 0>> \o tag \o <<0, 0, HiByte(value), LoByte(value)>>

PeerHeader(flags, declared, sid, from, seq) ==
  << flags * 8 + (declared \div 256), declared % 256,
     HiByte(sid), LoByte(sid), 0, 0,
     HiByte(from), LoByte(from), 0, 0, HiByte(seq), LoByte(seq) >>

PeerFrame(flags, sid, from, seq, payload) ==
  PeerHeader(flags, HEADER_SIZE + Len(payload), sid, from, seq) \o payload

\* payloads as lists of blocks: a block and its duplicate for each input,
\* two program inputs in a row, a program and a preview input
BlockLists ==
  { << [tag |-> TagPrgI, value |-> 3], [tag |-> TagPrgI, value |-> 3] >>,
    << [tag |-> TagPrvI, value |-> 2], [tag |-> TagPrvI, value |-> 2] >>,
    << [tag |-> TagPrgI, value |-> 1], [tag |-> TagPrgI, value |-> 3] >>,
    << [tag |-> TagPrgI, value |-> 3], [tag |-> TagPrvI, value |-> 2] >> }

\* the bytes of a list of blocks
RECURSIVE Concatenated(_)
Concatenated(blocks) ==
  IF blocks = <<>>
    THEN <<>>
    ELSE Block(Head(blocks).tag, Head(blocks).value)
           \o Concatenated(Tail(blocks))

Payloads == { Concatenated(blocks) : blocks \in BlockLists }

\* a datagram shorter than a header, its first byte carrying flag bits
ShortFrame == <<64, 5, 18, 52, 0>>

HandshakeFrames ==
  { PeerFrame(FLAG_NEW_SESSION_ID, sid, 0, seq, <<>>) :
      sid \in {SidA, SidB}, seq \in {0, 1} }
  \cup { PeerFrame(FLAG_NEW_SESSION_ID + FLAG_RETRANSMIT_REQUEST,
                   SidA, 1, 0, <<>>) }

DataFrames ==
  { PeerFrame(FLAG_ACK_REQUEST, SidA, 0, 2, p) : p \in Payloads }
  \cup { PeerFrame(0, SidA, 0, 1, <<>>),
         PeerFrame(FLAG_ACK_REQUEST, SidA, 0, 1, <<>>),
         PeerFrame(0, SidB, 0, 2, Block(TagPrvI, 2)) }

RetransmitRequestFrames ==
  { PeerFrame(FLAG_RETRANSMIT_REQUEST, SidA, from, 2, <<>>) :
      from \in 1 .. (MaxSeq - 1) }

InboundFrames ==
  {ShortFrame} \cup HandshakeFrames \cup DataFrames
    \cup RetransmitRequestFrames

\* _udp.parsePacket() <= 0
NoPacket == <<>>

\* inputs of the control operations
InputValues == {3}

(***************************************************************************)
(* The ATEM object as a record, so that the member functions compose.      *)
(* out and hooks collect what one call hands to the transport and the      *)
(* callbacks it invokes.                                                   *)
(***************************************************************************)
EmptySlot == [in_use |-> FALSE, packet_id |-> 0, data |-> <<>>]

Slots == 0 .. (MAX_RETRANSMIT_PACKETS - 1)

\* _udp.beginPacket / write / endPacket of a frame built by the caller
Transmit(s, kind, data, ok) ==
  [s EXCEPT !.out = Append(@, [kind |-> kind, data |-> data,
                               ok |-> ok, slot |-> -1])]

\* a variant that sets the retransmission flag in the copy it sends
Resend_FlagsRetransmit(s, i) ==
  [s EXCEPT !.out = Append(@, [kind |-> "resend",
                               data |-> << s.sent_packets[i].data[1]
                                           + FLAG_IS_RETRANSMIT * 8 >>
                                        \o Tail(s.sent_packets[i].data),
                               ok |-> TRUE, slot |-> i])]

\* the same for a frame taken from slot i of the ring buffer
Resend(s, i) ==
  [s EXCEPT !.out = Append(@, [kind |-> "resend",
                               data |-> s.sent_packets[i].data,
                               ok |-> TRUE, slot |-> i])]

Invoke(s, hook, arg) ==
  [s EXCEPT !.hooks = Append(@, [hook |-> hook, arg |-> arg])]

sendAck(s, packet_id) ==
  Transmit(s, "ack", AckPacket(s.session_id, packet_id), TRUE)

\* a variant whose write index stays where it is
storePacketForRetransmission_IndexStuck(s, packet_id, data) ==
  IF Len(data) > MAX_PACKET_SIZE
    THEN s
    ELSE [s EXCEPT
            !.sent_packets[s.packet_buffer_index] =
               [in_use |-> TRUE, packet_id |-> packet_id, data |-> data],
            !.stored = Append(@, s.packet_buffer_index)]

storePacketForRetransmission(s, packet_id, data) ==
  IF Len(data) > MAX_PACKET_SIZE
    THEN s
    ELSE [s EXCEPT
            !.sent_packets[s.packet_buffer_index] =
               [in_use |-> TRUE, packet_id |-> packet_id, data |-> data],
            !.stored = Append(@, s.packet_buffer_index),
            !.packet_buffer_index =
               (s.packet_buffer_index + 1) % MAX_RETRANSMIT_PACKETS]

\* a variant that does not keep the heartbeat for retransmission
sendHeartbeat_NotStored(s) ==
  LET packet == HeartbeatPacket(s.session_id, s.local_packet_id)
      sent == Transmit(s, "heartbeat", packet, TRUE)
  IN  [sent EXCEPT !.local_packet_id = (@ + 1) % U16Mod]

sendHeartbeat(s) ==
  LET packet == HeartbeatPacket(s.session_id, s.local_packet_id)
      stored == storePacketForRetransmission(s, s.local_packet_id, packet)
      sent == Transmit(stored, "heartbeat", packet, TRUE)
  IN  [sent EXCEPT !.local_packet_id = (@ + 1) % U16Mod]

\* the body shared by changeProgramInput, changePreviewInput, cut and
\* autoTransition; success is the result of endPacket()
\* a variant without the test of the connection state
SendCommand_Unguarded(s, tag, value, success) ==
  LET packet == CommandPacket(tag, s.session_id, s.local_packet_id, value)
      stored == storePacketForRetransmission(s, s.local_packet_id, packet)
      sent == Transmit(stored, "command", packet, success)
  IN  IF success
        THEN [sent EXCEPT !.local_packet_id = (@ + 1) % U16Mod]
        ELSE sent

\* a variant that sends the stored copy again when the transport refuses
\* the frame
SendCommand_RetriesOnFailure(s, tag, value, success) ==
  IF s.connection_state # ATEM_CONNECTED
    THEN s
    ELSE LET packet == CommandPacket(tag, s.session_id,
                                     s.local_packet_id, value)
             stored == storePacketForRetransmission(s, s.local_packet_id,
                                                    packet)
             sent == Transmit(stored, "command", packet, success)
         IN  IF success
               THEN [sent EXCEPT !.local_packet_id = (@ + 1) % U16Mod]
               ELSE Resend(sent, s.packet_buffer_index)

SendCommand(s, tag, value, success) ==
  IF s.connection_state # ATEM_CONNECTED
    THEN s
    ELSE LET packet == CommandPacket(tag, s.session_id,
                                     s.local_packet_id, value)
             stored == storePacketForRetransmission(s, s.local_packet_id,
                                                    packet)
             sent == Transmit(stored, "command", packet, success)
         IN  IF success
               THEN [sent EXCEPT !.local_packet_id = (@ + 1) % U16Mod]
               ELSE sent

\* a variant that sends nothing when the input is the stored program input
changeProgramInput_Deduplicated(s, input, success) ==
  IF input = s.program_input
    THEN s
    ELSE SendCommand(s, TagCPgI, input, success)

\* a variant that stores the input it asks for
changeProgramInput_Speculative(s, input, success) ==
  [SendCommand(s, TagCPgI, input, success) EXCEPT !.program_input = input]

changeProgramInput(s, input, success) ==
  SendCommand(s, TagCPgI, input, success)

changePreviewInput(s, input, success) ==
  SendCommand(s, TagCPvI, input, success)

\* a variant that swaps the stored inputs as soon as the command is built
cut_SwapsInputs(s, success) ==
  [SendCommand(s, TagDCut, 0, success)
     EXCEPT !.program_input = s.preview_input,
            !.preview_input = s.program_input,
            !.state_dirty = TRUE]

cut(s, success) == SendCommand(s, TagDCut, 0, success)

autoTransition(s, success) == SendCommand(s, TagDAut, 0, success)

(***************************************************************************)
(* Retransmit-request handling.                                            *)
(***************************************************************************)
\* the for loop of handleRetransmitRequest from slot i on; found is
\* found_start.  The result is the object after the resends.
RECURSIVE RetransmitScan(_, _, _, _)
RetransmitScan(s, from_packet_id, i, found) ==
  IF i >= MAX_RETRANSMIT_PACKETS
    THEN s
    ELSE LET slot == s.sent_packets[i]
             found_start == found \/ (slot.in_use
                                      /\ slot.packet_id = from_packet_id)
         IN  IF ~slot.in_use
               THEN RetransmitScan(s, from_packet_id, i + 1, found)
               ELSE IF found_start
                 THEN RetransmitScan(Resend(s, i), from_packet_id,
                                     i + 1, TRUE)
                 ELSE RetransmitScan(s, from_packet_id, i + 1, FALSE)

\* a variant without the ACK of the branch that found nothing to resend
handleRetransmitRequest_SilentMiss(s, from_packet_id, sequence_to_ack) ==
  LET scanned == RetransmitScan(s, from_packet_id, 0, FALSE)
  IN  IF Len(scanned.out) > Len(s.out)
        THEN sendAck(scanned, sequence_to_ack)
        ELSE scanned

\* a variant that acknowledges the requested sequence
handleRetransmitRequest_AcksFrom(s, from_packet_id, sequence_to_ack) ==
  sendAck(RetransmitScan(s, from_packet_id, 0, FALSE), from_packet_id)

\* both branches of the final if send the ACK
handleRetransmitRequest(s, from_packet_id, sequence_to_ack) ==
  sendAck(RetransmitScan(s, from_packet_id, 0, FALSE), sequence_to_ack)

(***************************************************************************)
(* Inbound command dispatcher.                                             *)
(***************************************************************************)
\* a variant without the comparison with the stored value
processProgramInput_NoCompare(s, data) ==
  IF Len(data) < 4
    THEN s
    ELSE Invoke([s EXCEPT !.program_input = ReadU16(data, 2),
                          !.state_dirty = TRUE],
                "onProgramInputChanged", ReadU16(data, 2))

processProgramInput(s, data) ==
  IF Len(data) < 4
    THEN s
    ELSE LET input == ReadU16(data, 2)
         IN  IF input # s.program_input
               THEN Invoke([s EXCEPT !.program_input = input,
                                     !.state_dirty = TRUE],
                           "onProgramInputChanged", input)
               ELSE s

processPreviewInput(s, data) ==
  IF Len(data) < 4
    THEN s
    ELSE LET input == ReadU16(data, 2)
         IN  IF input # s.preview_input
               THEN Invoke([s EXCEPT !.preview_input = input,
                                     !.state_dirty = TRUE],
                           "onPreviewInputChanged", input)
               ELSE s

\* the blocks the while loop of processInitialPayload finds from the given
\* offset on, each with its offset, cmd_length, cmd_name and the
\* cmd_length - 8 bytes handed to the handler
RECURSIVE ParseBlocks(_, _)
ParseBlocks(data, offset) ==
  IF ~(offset + 8 <= Len(data))
    THEN <<>>
    ELSE LET cmd_length == ReadU16(data, offset)
         IN  IF cmd_length < 8
               THEN <<>>
               ELSE IF offset + cmd_length > Len(data)
                 THEN <<>>
                 ELSE << [offset |-> offset,
                          cmd_length |-> cmd_length,
                          cmd_name |-> Slice(data, offset + 4, 4),
                          cmd_data |-> Slice(data, offset + 8,
                                             cmd_length - 8)] >>
                      \o ParseBlocks(data, offset + cmd_length)

\* the while loop of processInitialPayload from the given offset on
RECURSIVE PayloadLoop(_, _, _)
PayloadLoop(s, data, offset) ==
  IF ~(offset + 8 <= Len(data))
    THEN s
    ELSE LET cmd_length == ReadU16(data, offset)
             cmd_name == Slice(data, offset + 4, 4)
             cmd_data == Slice(data, offset + 8, cmd_length - 8)
         IN  IF cmd_length < 8
               THEN s
               ELSE IF offset + cmd_length > Len(data)
                 THEN s
                 ELSE PayloadLoop(
                        IF cmd_name = TagPrgI
                          THEN processProgramInput(s, cmd_data)
                          ELSE IF cmd_name = TagPrvI
                            THEN processPreviewInput(s, cmd_data)
                            ELSE s,
                        data, offset + cmd_length)

\* the number of payload bytes the while loop gets past
Consumed(data) ==
  LET blocks == ParseBlocks(data, 0)
  IN  IF blocks = <<>>
        THEN 0
        ELSE blocks[Len(blocks)].offset + blocks[Len(blocks)].cmd_length

\* a variant that applies nothing unless the loop gets to the end
processInitialPayload_AllOrNothing(s, data) ==
  IF Consumed(data) = Len(data)
    THEN PayloadLoop(s, data, 0)
    ELSE s

\* a variant that stops at the first block whose tag it does not know
processInitialPayload_StopsAtUnknown(s, data) ==
  LET blocks == ParseBlocks(data, 0)
      unknown == { k \in DOMAIN blocks :
                     blocks[k].cmd_name \notin {TagPrgI, TagPrvI} }
  IN  IF unknown = {}
        THEN PayloadLoop(s, data, 0)
        ELSE LET first == CHOOSE k \in unknown : \A j \in unknown : k <= j
             IN  PayloadLoop(s, Slice(data, 0, blocks[first].offset), 0)

processInitialPayload(s, data) == PayloadLoop(s, data, 0)

(***************************************************************************)
(* Inbound frames.                                                         *)
(***************************************************************************)
\* buffer[0] >> 3
HeaderFlags(buffer) == buffer[1] \div 8

\* a variant that takes the length from the low 10 bits
HeaderLength_TenBits(buffer) == ReadU16(buffer, 0) % 1024

\* ((buffer[0] << 8) | buffer[1]) & 0x07FF
HeaderLength(buffer) == ReadU16(buffer, 0) % 2048

HeaderSessionId(buffer) == ReadU16(buffer, 2)

HeaderAckedPacketId(buffer) == ReadU16(buffer, 6)

HeaderRemotePacketId(buffer) == ReadU16(buffer, 10)

\* a variant that keeps the session id of the HELLO
HandshakeSuccess_KeepsSessionId(s, buffer) ==
  LET remote_packet_id == HeaderRemotePacketId(buffer)
      s1 == [s EXCEPT !.connection_state = ATEM_CONNECTED,
                      !.since_heartbeat = 0]
  IN  IF remote_packet_id > 0
        THEN [sendAck(s1, remote_packet_id)
                EXCEPT !.remote_packet_id = remote_packet_id]
        ELSE s1

\* a variant that acknowledges the response whatever its sequence
HandshakeSuccess_AlwaysAcks(s, buffer) ==
  LET remote_packet_id == HeaderRemotePacketId(buffer)
      s1 == [s EXCEPT !.session_id = HeaderSessionId(buffer),
                      !.connection_state = ATEM_CONNECTED,
                      !.since_heartbeat = 0]
  IN  [sendAck(s1, remote_packet_id)
         EXCEPT !.remote_packet_id = remote_packet_id]

\* parsePacket after a handshake response was recognised
HandshakeSuccess(s, buffer) ==
  LET remote_packet_id == HeaderRemotePacketId(buffer)
      s1 == [s EXCEPT !.session_id = HeaderSessionId(buffer),
                      !.connection_state = ATEM_CONNECTED,
                      !.since_heartbeat = 0]
  IN  IF remote_packet_id > 0
        THEN [sendAck(s1, remote_packet_id)
                EXCEPT !.remote_packet_id = remote_packet_id]
        ELSE s1

\* a variant of the steady-state path that acknowledges only on request
SteadyState_AckOnRequestOnly(s, buffer) ==
  LET flags == HeaderFlags(buffer)
      session_id == HeaderSessionId(buffer)
      remote_packet_id == HeaderRemotePacketId(buffer)
      s1 == IF s.connection_state = ATEM_CONNECTED
               /\ session_id # s.session_id
              THEN [s EXCEPT !.session_id = session_id]
              ELSE s
      s2 == IF remote_packet_id > s1.remote_packet_id
              THEN [s1 EXCEPT !.remote_packet_id = remote_packet_id]
              ELSE s1
      s3 == IF HasFlag(flags, FLAG_ACK_REQUEST)
              THEN sendAck(s2, remote_packet_id)
              ELSE s2
  IN  IF HasFlag(flags, FLAG_RETRANSMIT_REQUEST)
        THEN handleRetransmitRequest(s2, HeaderAckedPacketId(buffer),
                                     remote_packet_id)
        ELSE IF Len(buffer) > HEADER_SIZE
          THEN processInitialPayload(s3, Slice(buffer, HEADER_SIZE,
                                               Len(buffer) - HEADER_SIZE))
          ELSE s3

\* parsePacket below the handshake branch
SteadyState(s, buffer) ==
  LET flags == HeaderFlags(buffer)
      session_id == HeaderSessionId(buffer)
      remote_packet_id == HeaderRemotePacketId(buffer)
      s1 == IF s.connection_state = ATEM_CONNECTED
               /\ session_id # s.session_id
              THEN [s EXCEPT !.session_id = session_id]
              ELSE s
      s2 == IF remote_packet_id > s1.remote_packet_id
              THEN [s1 EXCEPT !.remote_packet_id = remote_packet_id]
              ELSE s1
      s3 == IF Len(buffer) > HEADER_SIZE \/ HasFlag(flags, FLAG_ACK_REQUEST)
              THEN sendAck(s2, remote_packet_id)
              ELSE s2
  IN  IF HasFlag(flags, FLAG_RETRANSMIT_REQUEST)
        THEN handleRetransmitRequest(s2, HeaderAckedPacketId(buffer),
                                     remote_packet_id)
        ELSE IF Len(buffer) > HEADER_SIZE
          THEN processInitialPayload(s3, Slice(buffer, HEADER_SIZE,
                                               Len(buffer) - HEADER_SIZE))
          ELSE s3

\* a variant that drops a frame whose declared length is not its size
parsePacket_RejectsMismatch(s, buffer) ==
  IF Len(buffer) < HEADER_SIZE \/ HeaderLength(buffer) # Len(buffer)
    THEN s
    ELSE IF s.connection_state = ATEM_CONNECTING
            /\ HasFlag(HeaderFlags(buffer), FLAG_NEW_SESSION_ID)
      THEN HandshakeSuccess(s, buffer)
      ELSE SteadyState(s, buffer)

\* a variant that takes a handshake response in the Error state as well
parsePacket_HandshakeInError(s, buffer) ==
  IF Len(buffer) < HEADER_SIZE
    THEN s
    ELSE IF s.connection_state \in {ATEM_CONNECTING, ATEM_ERROR}
            /\ HasFlag(HeaderFlags(buffer), FLAG_NEW_SESSION_ID)
      THEN HandshakeSuccess(s, buffer)
      ELSE SteadyState(s, buffer)

parsePacket(s, buffer) ==
  IF Len(buffer) < HEADER_SIZE
    THEN s
    ELSE IF s.connection_state = ATEM_CONNECTING
            /\ HasFlag(HeaderFlags(buffer), FLAG_NEW_SESSION_ID)
      THEN HandshakeSuccess(s, buffer)
      ELSE SteadyState(s, buffer)

\* a variant that takes the time of arrival before it looks at the length
processIncomingPacket_RefreshesFirst(s, packet) ==
  IF Len(packet) <= 0
    THEN s
    ELSE IF Len(packet) < HEADER_SIZE
      THEN [s EXCEPT !.since_received = 0]
      ELSE parsePacket([s EXCEPT !.since_received = 0], packet)

\* packet is what the socket delivers; NoPacket when nothing is pending
processIncomingPacket(s, packet) ==
  IF Len(packet) <= 0
    THEN s
    ELSE IF Len(packet) < HEADER_SIZE
      THEN s
      ELSE parsePacket([s EXCEPT !.since_received = 0], packet)

(***************************************************************************)
(* State.                                                                  *)
(***************************************************************************)
VARIABLES
  connection_state,       \* _connection_state
  session_id,             \* _session_id
  local_packet_id,        \* _local_packet_id
  remote_packet_id,       \* _remote_packet_id
  since_heartbeat,        \* millis() - _last_heartbeat
  since_received,         \* millis() - _last_received
  state_dirty,            \* _state_dirty
  program_input,          \* _state.program_input
  preview_input,          \* _state.preview_input
  in_transition,          \* _state.in_transition
  transition_position,    \* _state.transition_position
  sent_packets,           \* _sent_packets
  packet_buffer_index,    \* _packet_buffer_index
  udp_initialized,        \* _udp_initialized, the socket being bound
  pc,                     \* "idle", or "connect_wait" inside connect()
  waited,                 \* millis() - start_time inside connect()
  connects,               \* calls of begin() and connect() so far
  op,                     \* the operation that ran last
  rx,                     \* the datagram it read, NoPacket if none
  out,                    \* the frames it handed to the transport
  hooks,                  \* the callbacks it invoked
  ret,                    \* its result
  handshake_session,      \* session id adopted by the last handshake
  last_reliable,          \* sequence of the last heartbeat or command the
                          \* transport accepted since the last handshake
  insertions,             \* the occupied slots, earliest insertion first
  probe                   \* a value taken through an encoder and a decoder

object == << connection_state, session_id, local_packet_id,
             remote_packet_id, since_heartbeat, since_received,
             state_dirty, program_input,
             preview_input, in_transition, transition_position,
             sent_packets, packet_buffer_index,
             udp_initialized >>

vars == << connection_state, session_id, local_packet_id,
           remote_packet_id, since_heartbeat, since_received,
           state_dirty, program_input,
           preview_input, in_transition, transition_position,
           sent_packets, packet_buffer_index,
           udp_initialized, pc, waited, connects,
           op, rx, out, hooks, ret, handshake_session, last_reliable,
           insertions, probe >>

\* the object at the start of a call
Cur ==
  [ connection_state |-> connection_state,
    session_id |-> session_id,
    local_packet_id |-> local_packet_id,
    remote_packet_id |-> remote_packet_id,
    since_heartbeat |-> since_heartbeat,
    since_received |-> since_received,
    state_dirty |-> state_dirty,
    program_input |-> program_input,
    preview_input |-> preview_input,
    in_transition |-> in_transition,
    transition_position |-> transition_position,
    sent_packets |-> sent_packets,
    packet_buffer_index |-> packet_buffer_index,
    udp_initialized |-> udp_initialized,
    out |-> <<>>,
    hooks |-> <<>>,
    stored |-> <<>> ]

IsReliable(f) == f.kind \in {"heartbeat", "command"}

\* sequence field of a frame that is not an ACK
FrameSequence(data) == ReadU16(data, 10)

\* the accepted reliable frames among a call's output, in order
RECURSIVE AcceptedReliable(_)
AcceptedReliable(frames) ==
  IF frames = <<>>
    THEN <<>>
    ELSE IF IsReliable(Head(frames)) /\ Head(frames).ok
      THEN <<Head(frames)>> \o AcceptedReliable(Tail(frames))
      ELSE AcceptedReliable(Tail(frames))

\* the order of insertion after a call wrote the slots of stored
RECURSIVE Inserted(_, _)
Inserted(order, stored) ==
  IF stored = <<>>
    THEN order
    ELSE Inserted(Append(SelectSeq(order, LAMBDA k : k # Head(stored)),
                         Head(stored)),
                  Tail(stored))

\* the object and the observations at the end of a call
Commit(s, name, packet, result) ==
  /\ connection_state' = s.connection_state
  /\ session_id' = s.session_id
  /\ local_packet_id' = s.local_packet_id
  /\ remote_packet_id' = s.remote_packet_id
  /\ since_heartbeat' = s.since_heartbeat
  /\ since_received' = s.since_received
  /\ state_dirty' = s.state_dirty
  /\ program_input' = s.program_input
  /\ preview_input' = s.preview_input
  /\ in_transition' = s.in_transition
  /\ transition_position' = s.transition_position
  /\ sent_packets' = s.sent_packets
  /\ packet_buffer_index' = s.packet_buffer_index
  /\ udp_initialized' = s.udp_initialized
  /\ op' = name
  /\ rx' = packet
  /\ out' = s.out
  /\ hooks' = s.hooks
  /\ ret' = result
  /\ handshake_session' =
       IF connection_state = ATEM_CONNECTING
          /\ s.connection_state = ATEM_CONNECTED
         THEN HeaderSessionId(packet)
         ELSE handshake_session
  /\ last_reliable' =
       IF connection_state = ATEM_CONNECTING
          /\ s.connection_state = ATEM_CONNECTED
         THEN 0
         ELSE LET sent == AcceptedReliable(s.out)
              IN  IF sent = <<>>
                    THEN last_reliable
                    ELSE FrameSequence(sent[Len(sent)].data)
  /\ insertions' = Inserted(insertions, s.stored)
  /\ probe' = probe

\* no value is being encoded
NoProbe == [stage |-> "none"]

Init ==
  /\ connection_state = ATEM_DISCONNECTED
  /\ session_id = InitialSessionId
  /\ local_packet_id = InitialLocalPacketId
  /\ remote_packet_id = 0
  /\ since_heartbeat = 0
  /\ since_received = 0
  /\ state_dirty = FALSE
  /\ program_input = 0
  /\ preview_input = 0
  /\ in_transition = FALSE
  /\ transition_position = 0
  /\ sent_packets = [i \in Slots |-> EmptySlot]
  /\ packet_buffer_index = 0
  /\ udp_initialized = FALSE
  /\ pc = "idle"
  /\ waited = 0
  /\ connects = 0
  /\ op = "construct"
  /\ rx = NoPacket
  /\ out = <<>>
  /\ hooks = <<>>
  /\ ret = "void"
  /\ handshake_session = 0
  /\ last_reliable = 0
  /\ insertions = <<>>
  /\ probe = NoProbe

\* what a non-blocking receive may return when the peer sends frames
Receivable(frames) == IF udp_initialized THEN frames \cup {NoPacket}
                                         ELSE {NoPacket}

(***************************************************************************)
(* Time.                                                                   *)
(***************************************************************************)
Min(a, b) == IF a < b THEN a ELSE b

\* one tick passes
Elapse(s) ==
  [s EXCEPT
     !.since_heartbeat = Min(@ + 1, HEARTBEAT_INTERVAL + 1),
     !.since_received = Min(@ + 1, CONNECTION_TIMEOUT + 1)]

(***************************************************************************)
(* connect(), begin() and disconnect().                                    *)
(***************************************************************************)
\* a variant that builds the HELLO from the current session id
ConnectSend_SessionInHello(s, send_success) ==
  LET s1 == [s EXCEPT !.connection_state = ATEM_CONNECTING]
      hello == [hello_packet EXCEPT ![3] = HiByte(s.session_id),
                                    ![4] = LoByte(s.session_id)]
      s2 == Transmit(s1, "hello", hello, send_success)
  IN  IF ~send_success
        THEN [s2 EXCEPT !.connection_state = ATEM_ERROR]
        ELSE [s2 EXCEPT !.local_packet_id = 1]

\* connect() up to the wait loop; send_success is
\* bytes_written == 20 && endPacket()
ConnectSend(s, send_success) ==
  LET s1 == [s EXCEPT !.connection_state = ATEM_CONNECTING]
      s2 == Transmit(s1, "hello", hello_packet, send_success)
  IN  IF ~send_success
        THEN [s2 EXCEPT !.connection_state = ATEM_ERROR]
        ELSE [s2 EXCEPT !.local_packet_id = 1]

CanStartConnect ==
  /\ pc = "idle"
  /\ connects < MaxConnects

Connect ==
  /\ CanStartConnect
  /\ \E send_success \in BOOLEAN :
       /\ Commit(ConnectSend(Cur, send_success), "connect", NoPacket,
                 IF send_success THEN "pending" ELSE "false")
       /\ pc' = IF send_success THEN "connect_wait" ELSE "idle"
  /\ waited' = 0
  /\ connects' = connects + 1

\* begin() without the diagnostics: bind the socket, send the probe, connect
Begin ==
  /\ CanStartConnect
  /\ \E udp_ok \in BOOLEAN, send_success \in BOOLEAN :
       IF ~udp_ok
         THEN /\ Commit([Cur EXCEPT !.udp_initialized = FALSE],
                        "begin", NoPacket, "false")
              /\ pc' = "idle"
         ELSE /\ Commit(ConnectSend(
                          Transmit([Cur EXCEPT !.udp_initialized = TRUE],
                                   "probe", test_packet, TRUE),
                          send_success),
                        "begin", NoPacket,
                        IF send_success THEN "pending" ELSE "false")
              /\ pc' = IF send_success THEN "connect_wait" ELSE "idle"
  /\ waited' = 0
  /\ connects' = connects + 1

\* one iteration of the wait loop of connect(): the loop test, the receive
\* and, unless the handshake completed, delay(10), which is one tick
ConnectPoll(frames) ==
  /\ pc = "connect_wait"
  /\ waited < CONNECTION_TIMEOUT
  /\ \E packet \in Receivable(frames) :
       LET s1 == processIncomingPacket(Cur, packet)
       IN  IF s1.connection_state = ATEM_CONNECTED
             THEN /\ Commit(Invoke(s1, "onConnectionStateChanged",
                                   ATEM_CONNECTED),
                            "connect", packet, "true")
                  /\ pc' = "idle"
                  /\ waited' = 0
             ELSE /\ Commit(Elapse(s1), "connect", packet, "pending")
                  /\ pc' = "connect_wait"
                  /\ waited' = waited + 1
  /\ connects' = connects

\* a variant that does not tell the application
ConnectTimeoutBody_NoHook(s) ==
  [s EXCEPT !.connection_state = ATEM_ERROR]

\* a variant that returns without leaving Connecting
ConnectTimeoutBody_StaysConnecting(s) ==
  Invoke(s, "onConnectionStateChanged", ATEM_ERROR)

\* the code after the wait loop
ConnectTimeoutBody(s) ==
  Invoke([s EXCEPT !.connection_state = ATEM_ERROR],
         "onConnectionStateChanged", ATEM_ERROR)

ConnectTimeout ==
  /\ pc = "connect_wait"
  /\ ~(waited < CONNECTION_TIMEOUT)
  /\ Commit(ConnectTimeoutBody(Cur), "connect", NoPacket, "false")
  /\ pc' = "idle"
  /\ waited' = 0
  /\ UNCHANGED connects

disconnect(s) ==
  LET s1 == IF s.connection_state = ATEM_CONNECTED
              THEN Invoke([s EXCEPT !.connection_state = ATEM_DISCONNECTED],
                          "onConnectionStateChanged", ATEM_DISCONNECTED)
              ELSE s
  IN  [s1 EXCEPT !.udp_initialized = FALSE]

Disconnect ==
  /\ pc = "idle"
  /\ Commit(disconnect(Cur), "disconnect", NoPacket, "void")
  /\ UNCHANGED << pc, waited, connects >>

(***************************************************************************)
(* runLoop() and the control operations.                                   *)
(***************************************************************************)
\* hb_ok is what the transport does with the heartbeat; the code does not
\* look at it
\* a variant whose silence check notifies without leaving Connected
runLoop_StaysConnected(s, packet, hb_ok) ==
  LET s1 == processIncomingPacket(s, packet)
      hb == sendHeartbeat(s1)
      s2 == IF s1.connection_state = ATEM_CONNECTED
               /\ s1.since_heartbeat > HEARTBEAT_INTERVAL
              THEN [hb EXCEPT !.since_heartbeat = 0,
                              !.out[Len(hb.out)].ok = hb_ok]
              ELSE s1
      s3 == IF s2.connection_state = ATEM_CONNECTED
               /\ s2.since_received > CONNECTION_TIMEOUT
              THEN Invoke(s2, "onConnectionStateChanged", ATEM_ERROR)
              ELSE s2
  IN  IF s3.state_dirty
        THEN [Invoke(s3, "onStateChanged", 0) EXCEPT !.state_dirty = FALSE]
        ELSE s3

\* a variant that notifies without clearing the dirty flag
runLoop_KeepsDirty(s, packet, hb_ok) ==
  LET s1 == processIncomingPacket(s, packet)
      hb == sendHeartbeat(s1)
      s2 == IF s1.connection_state = ATEM_CONNECTED
               /\ s1.since_heartbeat > HEARTBEAT_INTERVAL
              THEN [hb EXCEPT !.since_heartbeat = 0,
                              !.out[Len(hb.out)].ok = hb_ok]
              ELSE s1
      s3 == IF s2.connection_state = ATEM_CONNECTED
               /\ s2.since_received > CONNECTION_TIMEOUT
              THEN Invoke([s2 EXCEPT !.connection_state = ATEM_ERROR],
                          "onConnectionStateChanged", ATEM_ERROR)
              ELSE s2
  IN  IF s3.state_dirty
        THEN Invoke(s3, "onStateChanged", 0)
        ELSE s3

runLoop(s, packet, hb_ok) ==
  LET s1 == processIncomingPacket(s, packet)
      hb == sendHeartbeat(s1)
      s2 == IF s1.connection_state = ATEM_CONNECTED
               /\ s1.since_heartbeat > HEARTBEAT_INTERVAL
              THEN [hb EXCEPT !.since_heartbeat = 0,
                              !.out[Len(hb.out)].ok = hb_ok]
              ELSE s1
      s3 == IF s2.connection_state = ATEM_CONNECTED
               /\ s2.since_received > CONNECTION_TIMEOUT
              THEN Invoke([s2 EXCEPT !.connection_state = ATEM_ERROR],
                          "onConnectionStateChanged", ATEM_ERROR)
              ELSE s2
  IN  IF s3.state_dirty
        THEN [Invoke(s3, "onStateChanged", 0) EXCEPT !.state_dirty = FALSE]
        ELSE s3

\* whether this call of runLoop sends a heartbeat
HeartbeatDue(s, packet) ==
  LET s1 == processIncomingPacket(s, packet)
  IN  /\ s1.connection_state = ATEM_CONNECTED
      /\ s1.since_heartbeat > HEARTBEAT_INTERVAL

RunLoop(frames) ==
  /\ pc = "idle"
  /\ \E packet \in Receivable(frames) :
       IF HeartbeatDue(Cur, packet)
         THEN /\ local_packet_id < MaxSeq
              /\ \E hb_ok \in BOOLEAN :
                   Commit(runLoop(Cur, packet, hb_ok), "runLoop",
                          packet, "void")
         ELSE Commit(runLoop(Cur, packet, TRUE), "runLoop",
                     packet, "void")
  /\ UNCHANGED << pc, waited, connects >>

\* a control operation may run if it is refused or a sequence is left
CanSend ==
  /\ pc = "idle"
  /\ connection_state = ATEM_CONNECTED => local_packet_id < MaxSeq

\* changeProgramInput(input) for an input among the given ones
ChangeProgramInputAmong(inputs) ==
  /\ CanSend
  /\ \E input \in inputs, success \in BOOLEAN :
       Commit(changeProgramInput(Cur, input, success),
              "changeProgramInput", NoPacket, "void")
  /\ UNCHANGED << pc, waited, connects >>

ChangeProgramInput == ChangeProgramInputAmong(InputValues)

ChangePreviewInput ==
  /\ CanSend
  /\ \E input \in InputValues, success \in BOOLEAN :
       Commit(changePreviewInput(Cur, input, success),
              "changePreviewInput", NoPacket, "void")
  /\ UNCHANGED << pc, waited, connects >>

Cut ==
  /\ CanSend
  /\ \E success \in BOOLEAN :
       Commit(cut(Cur, success), "cut", NoPacket, "void")
  /\ UNCHANGED << pc, waited, connects >>

AutoTransition ==
  /\ CanSend
  /\ \E success \in BOOLEAN :
       Commit(autoTransition(Cur, success), "autoTransition", NoPacket,
              "void")
  /\ UNCHANGED << pc, waited, connects >>

\* a tick passes between two calls of the application
Tick ==
  /\ pc = "idle"
  /\ Commit(Elapse(Cur), "tick", NoPacket, "void")
  /\ UNCHANGED << pc, waited, connects >>

(***************************************************************************)
(* Specifications.  Spec lets the peer send every frame of InboundFrames   *)
(* and the application call every operation.  The other specifications     *)
(* are Spec with the peer restricted to the frames one part of the engine  *)
(* reacts to, which keeps each of them small enough to explore in full.    *)
(***************************************************************************)
Next ==
  \/ Begin
  \/ Connect
  \/ ConnectPoll(InboundFrames)
  \/ ConnectTimeout
  \/ Disconnect
  \/ RunLoop(InboundFrames)
  \/ ChangeProgramInput
  \/ ChangePreviewInput
  \/ Cut
  \/ AutoTransition
  \/ Tick

Spec == Init /\ [][Next]_vars

\* the reliability layer: a handshake, a handshake response that also
\* carries the retransmit-request flag, and retransmit requests
ReliabilityFrames ==
  { PeerFrame(FLAG_NEW_SESSION_ID, SidA, 0, 1, <<>>),
    PeerFrame(FLAG_NEW_SESSION_ID + FLAG_RETRANSMIT_REQUEST,
              SidA, 1, 0, <<>>) }
  \cup RetransmitRequestFrames

NextReliability ==
  \/ Begin
  \/ Connect
  \/ ConnectPoll(ReliabilityFrames)
  \/ ConnectTimeout
  \/ Disconnect
  \/ RunLoop(ReliabilityFrames)
  \/ ChangeProgramInput
  \/ Cut
  \/ Tick

SpecReliability == Init /\ [][NextReliability]_vars

\* the connection state machine: handshake responses with two session
\* ids, with and without a sequence, a frame of another session that asks
\* for an ACK, and a datagram too short to be a frame; the application
\* connects, ticks and disconnects, so every frame built is a handshake
\* frame, an ACK or a heartbeat
ConnectionFrames ==
  { PeerFrame(FLAG_NEW_SESSION_ID, SidA, 0, 0, <<>>),
    PeerFrame(FLAG_NEW_SESSION_ID, SidB, 0, 1, <<>>),
    PeerFrame(FLAG_ACK_REQUEST, SidB, 0, 2, <<>>),
    ShortFrame }

NextConnection ==
  \/ Begin
  \/ Connect
  \/ ConnectPoll(ConnectionFrames)
  \/ ConnectTimeout
  \/ Disconnect
  \/ RunLoop(ConnectionFrames)
  \/ Tick

SpecConnection == Init /\ [][NextConnection]_vars

\* the command dispatcher: a handshake, then frames with payloads of
\* program-input and preview-input blocks
DispatchFrames ==
  { PeerFrame(FLAG_NEW_SESSION_ID, SidA, 0, 1, <<>>) }
  \cup { PeerFrame(FLAG_ACK_REQUEST, SidA, 0, 2, p) : p \in Payloads }

NextDispatch ==
  \/ Begin
  \/ ConnectPoll(DispatchFrames)
  \/ ConnectTimeout
  \/ RunLoop(DispatchFrames)
  \/ Tick

SpecDispatch == Init /\ [][NextDispatch]_vars

\* control commands against the stored state: a handshake and a frame that
\* reports program input 3, while the application asks for the program
\* input the engine starts with, for 3, for the input of the core test and
\* for the largest one
CommandInputs == {0, 3, 9999, 65535}

CommandFrames ==
  { PeerFrame(FLAG_NEW_SESSION_ID, SidA, 0, 1, <<>>),
    PeerFrame(FLAG_ACK_REQUEST, SidA, 0, 2,
              Block(TagPrgI, 3) \o Block(TagPrgI, 3)) }

NextCommand ==
  \/ Begin
  \/ ConnectPoll(CommandFrames)
  \/ ConnectTimeout
  \/ RunLoop(CommandFrames)
  \/ ChangeProgramInputAmong(CommandInputs)
  \/ Tick

SpecCommand == Init /\ [][NextCommand]_vars

\* the ACK policy: handshake responses with and without a sequence, an
\* AckRequest flag and a payload, and frames of every kind the policy
\* tells apart, among them an ACK of the peer and a retransmit request
\* that asks for an ACK
AckFrames ==
  { PeerFrame(FLAG_NEW_SESSION_ID, SidA, 0, 1, <<>>),
    PeerFrame(FLAG_NEW_SESSION_ID + FLAG_ACK_REQUEST, SidA, 0, 0, <<>>),
    PeerFrame(FLAG_NEW_SESSION_ID, SidA, 0, 0, <<0, 0, 0, 0, 0, 0, 0, 0>>),
    PeerFrame(0, SidA, 0, 2, <<>>),
    PeerFrame(FLAG_ACK_REQUEST, SidA, 0, 2, <<>>),
    PeerFrame(0, SidA, 0, 3, Block(TagPrgI, 3)),
    PeerFrame(FLAG_ACK_REPLY, SidA, 0, 0, <<>>),
    PeerFrame(FLAG_RETRANSMIT_REQUEST + FLAG_ACK_REQUEST, SidA, 1, 2, <<>>) }

NextAck ==
  \/ Begin
  \/ ConnectPoll(AckFrames)
  \/ ConnectTimeout
  \/ RunLoop(AckFrames)
  \/ Tick

SpecAck == Init /\ [][NextAck]_vars

\* the command loop on payloads it must stop in and on blocks it does not
\* know.  A payload is a list of segments: a block the engine knows, a
\* well-formed block it has no handler for, or bytes the loop must stop at.
TagXyZw == <<88, 121, 90, 119>>
TagTime == <<84, 105, 109, 101>>
TagPrgJ == <<80, 114, 103, 74>>
TagPrgNul == <<80, 114, 103, 0>>

\* a block with the given declared length, tag and data bytes
RawBlock(length, tag, data) ==
  << HiByte(length), LoByte(length), 0, 0 >> \o tag \o data

KnownBlock(tag, value) ==
  [kind |-> "block", tag |-> tag, value |-> value,
   bytes |-> Block(tag, value)]

SkippedBlock(length, tag, data) ==
  [kind |-> "skipped", tag |-> tag, value |-> 0,
   bytes |-> RawBlock(length, tag, data)]

StopBytes(bytes) ==
  [kind |-> "stop", tag |-> <<>>, value |-> 0, bytes |-> bytes]

\* payloads the loop stops in: fewer than 8 bytes left (7 and 3), a
\* declared length of 7 and of 0, a declared length that overruns the
\* payload by 4 bytes and by 1, each after a block or first, one of them
\* followed by a block the loop never gets to
HaltingPayloads ==
  { << KnownBlock(TagPrgI, 3),
       StopBytes(<<0, 12, 0, 0, 80, 114, 103>>) >>,
    << StopBytes(<<0, 12, 0>>) >>,
    << KnownBlock(TagPrgI, 3),
       StopBytes(RawBlock(7, TagPrgI, <<0, 0, 0, 1>>)),
       KnownBlock(TagPrvI, 2) >>,
    << KnownBlock(TagPrvI, 2),
       StopBytes(RawBlock(0, TagPrgI, <<0, 0, 0, 1>>)) >>,
    << KnownBlock(TagPrgI, 1), KnownBlock(TagPrgI, 3),
       StopBytes(RawBlock(16, TagPrvI, <<0, 0, 0, 2>>)) >>,
    << StopBytes(RawBlock(13, TagPrgI, <<0, 0, 0, 3>>)) >> }

\* payloads with blocks the engine has no handler for: of length 12, 8 and
\* 16, with tags one character or one NUL away from PrgI, alone, before
\* and between blocks it knows
UnknownTagPayloads ==
  { << SkippedBlock(12, TagXyZw, <<0, 0, 0, 3>>) >>,
    << SkippedBlock(12, TagXyZw, <<0, 0, 0, 3>>), KnownBlock(TagPrgI, 3) >>,
    << SkippedBlock(8, TagTime, <<>>), KnownBlock(TagPrvI, 2) >>,
    << KnownBlock(TagPrgI, 1),
       SkippedBlock(16, TagTime, <<1, 2, 3, 4, 5, 6, 7, 8>>),
       KnownBlock(TagPrgI, 3) >>,
    << SkippedBlock(12, TagPrgJ, <<0, 0, 0, 3>>),
       SkippedBlock(12, TagPrgNul, <<0, 0, 0, 1>>),
       KnownBlock(TagPrvI, 2) >> }

\* the bytes of a list of segments
RECURSIVE SegmentBytes(_)
SegmentBytes(segments) ==
  IF segments = <<>>
    THEN <<>>
    ELSE Head(segments).bytes \o SegmentBytes(Tail(segments))

ParserFrames ==
  { PeerFrame(FLAG_NEW_SESSION_ID, SidA, 0, 1, <<>>) }
  \cup { PeerFrame(FLAG_ACK_REQUEST, SidA, 0, 2, SegmentBytes(p)) :
           p \in HaltingPayloads \cup UnknownTagPayloads }

NextParser ==
  \/ Begin
  \/ ConnectPoll(ParserFrames)
  \/ ConnectTimeout
  \/ RunLoop(ParserFrames)
  \/ Tick

SpecParser == Init /\ [][NextParser]_vars

\* the encoders against the decoders: a header built the way the outbound
\* builders fill it and read the way parsePacket reads it; the command
\* block of a control operation read by the inbound command loop
U16Samples == {0, 1, 255, 256, 9999, 21419, 65535}

HeaderLengths == {0, 12, 24, 255, 256, 2047}

AllFlags == 0 .. 31

OutboundTags == {TagCPgI, TagCPvI, TagDCut, TagDAut}

HeaderProbes ==
  { [stage |-> "header", flags |-> f, length |-> l,
     session_id |-> sid, sequence |-> seq] :
      f \in AllFlags, l \in HeaderLengths,
      sid \in U16Samples, seq \in U16Samples }

BlockProbes ==
  { [stage |-> "command", tag |-> t, value |-> v,
     session_id |-> sid, sequence |-> seq] :
      t \in OutboundTags, v \in U16Samples,
      sid \in {SidA}, seq \in {1, 65535} }

InitCodec ==
  /\ connection_state = ATEM_DISCONNECTED
  /\ session_id = InitialSessionId
  /\ local_packet_id = InitialLocalPacketId
  /\ remote_packet_id = 0
  /\ since_heartbeat = 0
  /\ since_received = 0
  /\ state_dirty = FALSE
  /\ program_input = 0
  /\ preview_input = 0
  /\ in_transition = FALSE
  /\ transition_position = 0
  /\ sent_packets = [i \in Slots |-> EmptySlot]
  /\ packet_buffer_index = 0
  /\ udp_initialized = FALSE
  /\ pc = "idle"
  /\ waited = 0
  /\ connects = 0
  /\ op = "construct"
  /\ rx = NoPacket
  /\ out = <<>>
  /\ hooks = <<>>
  /\ ret = "void"
  /\ handshake_session = 0
  /\ last_reliable = 0
  /\ insertions = <<>>
  /\ probe \in HeaderProbes \cup BlockProbes

engine == << connection_state, session_id, local_packet_id,
             remote_packet_id, since_heartbeat, since_received,
             state_dirty, program_input,
             preview_input, in_transition, transition_position,
             sent_packets, packet_buffer_index,
             udp_initialized, pc, waited, connects,
             op, rx, out, hooks, ret, handshake_session, last_reliable,
             insertions >>

\* the header bytes of an outbound frame
EncodeHeader ==
  /\ probe.stage = "header"
  /\ probe' = [stage |-> "header_built", input |-> probe,
               bytes |-> BuildHeader(probe.flags, probe.length,
                                     probe.session_id, probe.sequence)]
  /\ UNCHANGED engine

\* the header parse of parsePacket
DecodeHeader ==
  /\ probe.stage = "header_built"
  /\ probe' = [stage |-> "header_parsed", input |-> probe.input,
               bytes |-> probe.bytes,
               flags |-> HeaderFlags(probe.bytes),
               packet_length |-> HeaderLength(probe.bytes),
               session_id |-> HeaderSessionId(probe.bytes),
               remote_packet_id |-> HeaderRemotePacketId(probe.bytes)]
  /\ UNCHANGED engine

\* the frame of a control operation
EncodeCommand ==
  /\ probe.stage = "command"
  /\ probe' = [stage |-> "command_built", input |-> probe,
               bytes |-> CommandPacket(probe.tag, probe.session_id,
                                       probe.sequence, probe.value)]
  /\ UNCHANGED engine

\* processInitialPayload on what follows the header, as parsePacket calls it
DecodeCommand ==
  /\ probe.stage = "command_built"
  /\ probe' = [stage |-> "command_parsed", input |-> probe.input,
               bytes |-> probe.bytes,
               blocks |-> ParseBlocks(
                            Slice(probe.bytes, HEADER_SIZE,
                                  Len(probe.bytes) - HEADER_SIZE), 0)]
  /\ UNCHANGED engine

NextCodec ==
  \/ EncodeHeader
  \/ DecodeHeader
  \/ EncodeCommand
  \/ DecodeCommand

SpecCodec == InitCodec /\ [][NextCodec]_vars

\* the wait loop of connect() keeps running: nothing else runs on the
\* single thread, and delay(10) lets the clock advance
LiveConnection ==
  /\ SpecConnection
  /\ WF_vars(ConnectPoll(ConnectionFrames))
  /\ WF_vars(ConnectTimeout)

(***************************************************************************)
(* Observations used by the properties.                                    *)
(***************************************************************************)
\* positions of the frames of one kind among a call's output
Positions(frames, kind) == { k \in DOMAIN frames : frames[k].kind = kind }

\* the ring-buffer slots a call resent
ResentSlots(frames) == { frames[k].slot : k \in Positions(frames, "resend") }

\* sequence an ACK frame acknowledges
AckedSequence(data) == ReadU16(data, 4)

CarriesFlag(packet, mask) ==
  Len(packet) >= HEADER_SIZE /\ HasFlag(HeaderFlags(packet), mask)

\* slot i holds a frame
Retained(i) == sent_packets[i].in_use

\* this step read a retransmit request and passed it to
\* handleRetransmitRequest: the frame was not taken as the handshake response
RetransmitHandled ==
  /\ CarriesFlag(rx', FLAG_RETRANSMIT_REQUEST)
  /\ ~(connection_state = ATEM_CONNECTING
       /\ CarriesFlag(rx', FLAG_NEW_SESSION_ID))

\* the call's output has exactly one ACK, sent after every resend, and it
\* acknowledges sequence seq
OneAckAfterResends(frames, seq) ==
  /\ Cardinality(Positions(frames, "ack")) = 1
  /\ \A k \in Positions(frames, "ack") :
       /\ AckedSequence(frames[k].data) = seq
       /\ \A j \in Positions(frames, "resend") : j < k

(***************************************************************************)
(* C1: when a retransmit request for sequence N is handled and a retained  *)
(* entry has sequence N, every retained entry with sequence >= N is        *)
(* resent, wherever it is stored.  The code resends by slot position, so   *)
(* this fails once the ring buffer has wrapped.                            *)
(***************************************************************************)
C1_ResendsAllFromN ==
  [][ ( /\ RetransmitHandled
        /\ \E i \in Slots :
             Retained(i)
             /\ sent_packets[i].packet_id = HeaderAckedPacketId(rx') )
      => \A i \in Slots :
           ( Retained(i)
             /\ sent_packets[i].packet_id >= HeaderAckedPacketId(rx') )
           => i \in ResentSlots(out') ]_vars

C3_Original ==
  [][ CarriesFlag(rx', FLAG_RETRANSMIT_REQUEST)
      => OneAckAfterResends(out', HeaderRemotePacketId(rx')) ]_vars

(***************************************************************************)
(* C3 amended: every inbound frame of at least 12 bytes that carries the   *)
(* RetransmitRequest flag and is not taken as the handshake response       *)
(* produces exactly one ACK, after all resends, for the sequence in its    *)
(* bytes 10-11 (not the requested sequence of bytes 6-7).                  *)
(***************************************************************************)
C3_OneAckForReportedSequence ==
  [][ RetransmitHandled
      => OneAckAfterResends(out', HeaderRemotePacketId(rx')) ]_vars

\* a request whose two sequence fields differ, answered by resends and then
\* the ACK
C3_Witness ==
  /\ CarriesFlag(rx, FLAG_RETRANSMIT_REQUEST)
  /\ HeaderAckedPacketId(rx) # HeaderRemotePacketId(rx)
  /\ Positions(out, "resend") # {}
  /\ OneAckAfterResends(out, HeaderRemotePacketId(rx))

(***************************************************************************)
(* C7: in a session, the first heartbeat or command frame the transport    *)
(* accepts carries sequence 1 and each later one carries the sequence of   *)
(* the previous one plus one (mod 2^16).  The code consumes a sequence for *)
(* a heartbeat the transport refused, and reuses the sequence of a refused *)
(* command.                                                                *)
(***************************************************************************)
C7_SequencesConsecutive ==
  [][ \A k \in DOMAIN out' :
        (IsReliable(out'[k]) /\ out'[k].ok)
        => FrameSequence(out'[k].data) = (last_reliable + 1) % U16Mod ]_vars

(***************************************************************************)
(* Observations of connect().                                              *)
(***************************************************************************)
\* this step is the start of a call of connect(), directly or from begin()
\* once the socket is bound
ConnectCalled ==
  /\ pc = "idle"
  /\ op' \in {"connect", "begin"}
  /\ op' = "begin" => udp_initialized'

\* this step is the iteration of the wait loop that reads the handshake
\* response
HandshakeAccepted ==
  /\ connection_state = ATEM_CONNECTING
  /\ CarriesFlag(rx', FLAG_NEW_SESSION_ID)

ConnectionHook(state) ==
  [hook |-> "onConnectionStateChanged", arg |-> state]

\* frames a call built, as opposed to frames it resent
BuiltPositions(frames) ==
  Positions(frames, "ack") \cup Positions(frames, "heartbeat")
    \cup Positions(frames, "command")

\* session id field of a frame
FrameSessionId(data) == ReadU16(data, 2)

HandshakeOutcome ==
  HandshakeAccepted
  => /\ connection_state' = ATEM_CONNECTED
     /\ session_id' = HeaderSessionId(rx')
     /\ ret' = "true"
     /\ hooks' = << ConnectionHook(ATEM_CONNECTED) >>

(***************************************************************************)
(* C5 as stated: a handshake response with session id S makes the state    *)
(* Connected, connect() return true and the hook fire once, and S is the   *)
(* session id of all frames built afterwards in the session.               *)
(***************************************************************************)
C5_Original ==
  [][ /\ HandshakeOutcome
      /\ (connection_state = ATEM_CONNECTED \/ HandshakeAccepted)
         => \A k \in BuiltPositions(out') :
              FrameSessionId(out'[k].data) = handshake_session' ]_vars

(***************************************************************************)
(* C5 amended: a handshake response with session id S makes the state      *)
(* Connected, records S as the session id, makes connect() return true and *)
(* fires the hook once; frames built afterwards carry the recorded session *)
(* id, which is S until a frame received while Connected reports another   *)
(* session id, which replaces it.                                          *)
(***************************************************************************)
C5_HandshakeAdoptsSession ==
  [][ /\ HandshakeOutcome
      /\ (connection_state = ATEM_CONNECTED \/ HandshakeAccepted)
         => \A k \in BuiltPositions(out') :
              FrameSessionId(out'[k].data) = session_id'
      /\ session_id' # session_id
         => \/ HandshakeAccepted
            \/ /\ connection_state = ATEM_CONNECTED
               /\ Len(rx') >= HEADER_SIZE
               /\ session_id' = HeaderSessionId(rx') ]_vars

\* connect() just returned true on a response with session id SidB, which
\* the ACK of the response carries
C5_Witness ==
  /\ op = "connect"
  /\ ret = "true"
  /\ connection_state = ATEM_CONNECTED
  /\ HeaderSessionId(rx) = SidB
  /\ session_id = SidB
  /\ hooks = << ConnectionHook(ATEM_CONNECTED) >>
  /\ Len(out) = 1
  /\ FrameSessionId(out[1].data) = SidB

(***************************************************************************)
(* C6: on handshake success an ACK for the sequence in bytes 10-11 of the  *)
(* response is sent if and only if that sequence is not zero.              *)
(***************************************************************************)
C6_HandshakeAckIffNonZero ==
  [][ HandshakeAccepted
      => IF HeaderRemotePacketId(rx') # 0
           THEN /\ Len(out') = 1
                /\ out'[1].kind = "ack"
                /\ AckedSequence(out'[1].data) = HeaderRemotePacketId(rx')
           ELSE out' = <<>> ]_vars

\* a handshake that succeeded on a response with sequence 0, without ACK
C6_Witness ==
  /\ op = "connect"
  /\ ret = "true"
  /\ CarriesFlag(rx, FLAG_NEW_SESSION_ID)
  /\ HeaderRemotePacketId(rx) = 0
  /\ out = <<>>

(***************************************************************************)
(* C8: when the handshake timeout elapses without a response, connect()    *)
(* ends in Error, invokes the hook with Error and returns false; and a     *)
(* handshake frame is only ever sent by the first step of a call of        *)
(* connect(): not by its wait loop, and not by runLoop().                  *)
(***************************************************************************)
C8_TimeoutIsFinal ==
  [][ /\ (pc = "connect_wait" /\ ~(waited < CONNECTION_TIMEOUT))
         => /\ pc' = "idle"
            /\ connection_state' = ATEM_ERROR
            /\ ret' = "false"
            /\ hooks' = << ConnectionHook(ATEM_ERROR) >>
      /\ Positions(out', "hello") # {} => ConnectCalled ]_vars

\* connect() just returned false after the timeout
C8_Witness ==
  /\ op = "connect"
  /\ pc = "idle"
  /\ ret = "false"
  /\ connection_state = ATEM_ERROR
  /\ hooks = << ConnectionHook(ATEM_ERROR) >>

(***************************************************************************)
(* C9: connect() terminates.  Whatever the peer sends, a call that waits   *)
(* returns; it never waits past the handshake timeout, and whenever no     *)
(* call is waiting the state is not Connecting.                            *)
(***************************************************************************)
C9_ConnectTerminates ==
  /\ (pc = "connect_wait") ~> (pc = "idle")
  /\ [](waited <= CONNECTION_TIMEOUT)
  /\ [](pc = "idle" => connection_state # ATEM_CONNECTING)

\* a call that read a frame which is no handshake response, went on
\* waiting, and is about to time out
C9_Witness ==
  /\ pc = "connect_wait"
  /\ waited = CONNECTION_TIMEOUT
  /\ rx # NoPacket
  /\ connection_state = ATEM_CONNECTING

(***************************************************************************)
(* Observations of the command dispatcher.                                 *)
(***************************************************************************)
\* the frame read by this step has the given payload and the payload is
\* handed to the dispatcher: the frame is not taken as the handshake
\* response and is no retransmit request
Dispatched(payload) ==
  /\ Len(rx') = HEADER_SIZE + Len(payload)
  /\ Len(payload) > 0
  /\ Slice(rx', HEADER_SIZE, Len(payload)) = payload
  /\ ~HandshakeAccepted
  /\ ~CarriesFlag(rx', FLAG_RETRANSMIT_REQUEST)

InputHooks(called) ==
  SelectSeq(called, LAMBDA h : h.hook \in {"onProgramInputChanged",
                                          "onPreviewInputChanged"})

\* what a list of blocks is to do to the stored inputs, block by block:
\* a block whose value is the stored one does nothing, any other block
\* stores its value and notifies
RECURSIVE Deduplicated(_, _)
Deduplicated(blocks, e) ==
  IF blocks = <<>>
    THEN e
    ELSE LET b == Head(blocks)
         IN  Deduplicated(Tail(blocks),
               IF b.tag = TagPrgI /\ b.value # e.program_input
                 THEN [e EXCEPT
                         !.program_input = b.value,
                         !.hooks = Append(@,
                            [hook |-> "onProgramInputChanged",
                             arg |-> b.value])]
                 ELSE IF b.tag = TagPrvI /\ b.value # e.preview_input
                   THEN [e EXCEPT
                           !.preview_input = b.value,
                           !.hooks = Append(@,
                              [hook |-> "onPreviewInputChanged",
                               arg |-> b.value])]
                   ELSE e)

(***************************************************************************)
(* C10: the blocks of a dispatched payload are applied one after the       *)
(* other; a PrgI block stores its value and fires program-input-changed    *)
(* only if the value differs from the one stored when the block is         *)
(* reached, so a block followed by its duplicate stores the value and      *)
(* fires the hook once; PrvI blocks do the same to the preview input.      *)
(***************************************************************************)
C10_DuplicateBlockFiresOnce ==
  [][ \A blocks \in BlockLists :
        Dispatched(Concatenated(blocks))
        => LET e == Deduplicated(blocks,
                      [program_input |-> program_input,
                       preview_input |-> preview_input,
                       hooks |-> <<>>])
           IN  /\ program_input' = e.program_input
               /\ preview_input' = e.preview_input
               /\ InputHooks(hooks') = e.hooks ]_vars

\* runLoop() just read PrgI 3 followed by its duplicate: the stored program
\* input is 3 and the hook fired once
C10_Witness ==
  /\ op = "runLoop"
  /\ Len(rx) > HEADER_SIZE
  /\ Slice(rx, HEADER_SIZE, Len(rx) - HEADER_SIZE)
       = Block(TagPrgI, 3) \o Block(TagPrgI, 3)
  /\ program_input = 3
  /\ InputHooks(hooks) = << [hook |-> "onProgramInputChanged", arg |-> 3] >>

(***************************************************************************)
(* Observations of runLoop().                                              *)
(***************************************************************************)
\* the callbacks of one kind among those a call invoked
HooksNamed(called, name) == SelectSeq(called, LAMBDA h : h.hook = name)

\* the last datagram a call read was accepted as a frame
FrameAccepted(packet) == Len(packet) >= HEADER_SIZE

(***************************************************************************)
(* C11: a runLoop() call made while Connected with more than the heartbeat *)
(* interval elapsed since the last heartbeat hands exactly one heartbeat   *)
(* to the transport, 12 bytes with only the AckRequest flag, the current   *)
(* session id and the current sequence; the frame is stored in the slot    *)
(* the write index points at and in no other, the index advances by one,   *)
(* and the timer is reset: a call made with the timer at zero sends none.  *)
(***************************************************************************)
C11_OneHeartbeatStored ==
  [][ op' = "runLoop"
      => /\ (connection_state = ATEM_CONNECTED
             /\ since_heartbeat > HEARTBEAT_INTERVAL)
            => /\ Cardinality(Positions(out', "heartbeat")) = 1
               /\ \A k \in Positions(out', "heartbeat") :
                    /\ Len(out'[k].data) = HEADER_SIZE
                    /\ HeaderFlags(out'[k].data) = FLAG_ACK_REQUEST
                    /\ HeaderLength(out'[k].data) = HEADER_SIZE
                    /\ HeaderSessionId(out'[k].data) = session_id'
                    /\ FrameSequence(out'[k].data) = local_packet_id
                    /\ sent_packets'[packet_buffer_index] =
                         [in_use |-> TRUE, packet_id |-> local_packet_id,
                          data |-> out'[k].data]
               /\ \A i \in Slots \ {packet_buffer_index} :
                    sent_packets'[i] = sent_packets[i]
               /\ packet_buffer_index' =
                    (packet_buffer_index + 1) % MAX_RETRANSMIT_PACKETS
               /\ since_heartbeat' = 0
         /\ (connection_state = ATEM_CONNECTED /\ since_heartbeat = 0)
            => /\ Positions(out', "heartbeat") = {}
               /\ sent_packets' = sent_packets ]_vars

\* runLoop() just sent a heartbeat, which is in the ring buffer
C11_Witness ==
  /\ op = "runLoop"
  /\ connection_state = ATEM_CONNECTED
  /\ since_heartbeat = 0
  /\ Cardinality(Positions(out, "heartbeat")) = 1
  /\ \E i \in Slots, k \in Positions(out, "heartbeat") :
       sent_packets[i].in_use /\ sent_packets[i].data = out[k].data

(***************************************************************************)
(* C12: a runLoop() call made while Connected that accepts no frame, with  *)
(* more than the silence timeout elapsed since the last accepted frame,    *)
(* makes the state Error and invokes connection-state-changed(Error)       *)
(* once; a runLoop() call made in any other state than Connected invokes   *)
(* no connection-state-changed and leaves the state alone.                 *)
(***************************************************************************)
C12_SilenceErrorOnce ==
  [][ op' = "runLoop"
      => /\ (connection_state = ATEM_CONNECTED
             /\ ~FrameAccepted(rx')
             /\ since_received > CONNECTION_TIMEOUT)
            => /\ connection_state' = ATEM_ERROR
               /\ HooksNamed(hooks', "onConnectionStateChanged")
                    = << ConnectionHook(ATEM_ERROR) >>
         /\ connection_state # ATEM_CONNECTED
            => /\ HooksNamed(hooks', "onConnectionStateChanged") = <<>>
               /\ connection_state' = connection_state ]_vars

\* runLoop() just found the peer silent for too long
C12_Witness ==
  /\ op = "runLoop"
  /\ connection_state = ATEM_ERROR
  /\ since_received > CONNECTION_TIMEOUT
  /\ HooksNamed(hooks, "onConnectionStateChanged")
       = << ConnectionHook(ATEM_ERROR) >>

(***************************************************************************)
(* C13: while Connected every call of changeProgramInput(x) hands exactly  *)
(* one command frame to the transport, the CPgI frame for x with the       *)
(* current session id and sequence, whether or not x is the stored program *)
(* input, and leaves the stored inputs alone.                              *)
(***************************************************************************)
C13_CommandNeverSuppressed ==
  [][ (op' = "changeProgramInput" /\ connection_state = ATEM_CONNECTED)
      => /\ Len(out') = 1
         /\ out'[1].kind = "command"
         /\ \E x \in CommandInputs :
              out'[1].data =
                CommandPacket(TagCPgI, session_id, local_packet_id, x)
         /\ program_input' = program_input
         /\ preview_input' = preview_input ]_vars

\* changeProgramInput(3) was just called with 3 as the stored program input
C13_Witness ==
  /\ op = "changeProgramInput"
  /\ connection_state = ATEM_CONNECTED
  /\ program_input = 3
  /\ Len(out) = 1
  /\ out[1].data = CommandPacket(TagCPgI, session_id,
                                 FrameSequence(out[1].data), 3)

C15_CommandBlockRoundTrip ==
  probe.stage = "command_parsed"
  => /\ Len(probe.bytes) = HEADER_SIZE + 12
     /\ Len(probe.blocks) = 1
     /\ probe.blocks[1].offset = 0
     /\ probe.blocks[1].cmd_length = 12
     /\ probe.blocks[1].cmd_name = probe.input.tag
     /\ probe.blocks[1].cmd_data =
          << 0, 0, HiByte(probe.input.value), LoByte(probe.input.value) >>
     /\ ReadU16(probe.blocks[1].cmd_data, 2) = probe.input.value
     /\ probe.blocks[1].offset + probe.blocks[1].cmd_length
          = Len(probe.bytes) - HEADER_SIZE

\* the block of changeProgramInput(9999)
C15_Witness ==
  /\ probe.stage = "command_parsed"
  /\ Len(probe.blocks) = 1
  /\ probe.blocks[1].cmd_name = TagCPgI
  /\ probe.blocks[1].cmd_data = <<0, 0, 39, 15>>

(***************************************************************************)
(* C16: after disconnect(), called in whatever state, the connection       *)
(* state is Disconnected.                                                  *)
(***************************************************************************)
C16_DisconnectFromAnyState ==
  [][ op' = "disconnect" => connection_state' = ATEM_DISCONNECTED ]_vars

\* disconnect() was just called in the Error state and left it
C16_StillError ==
  /\ op = "disconnect"
  /\ connection_state = ATEM_ERROR
  /\ hooks = <<>>
  /\ ~udp_initialized

(***************************************************************************)
(* C17: after disconnect() the retransmission ring buffer retains no       *)
(* frame, so nothing stored before it can be resent afterwards.            *)
(***************************************************************************)
C17_DisconnectClearsBuffer ==
  [][ op' = "disconnect" => \A i \in Slots : ~Retained(i)' ]_vars

\* a later connect() is waiting for the handshake response, nothing has
\* been stored since it started, and it resends a frame on request
C17_StaleResend ==
  /\ connects = 2
  /\ op = "connect"
  /\ pc = "connect_wait"
  /\ ResentSlots(out) # {}

(***************************************************************************)
(* Observations of the ACK policy.                                         *)
(***************************************************************************)
\* the policy asks for an ACK of this frame
AckExpected(packet) ==
  \/ Len(packet) > HEADER_SIZE
  \/ CarriesFlag(packet, FLAG_ACK_REQUEST)

\* a call's output holds an ACK of the given sequence
Acknowledged(frames, seq) ==
  \E k \in Positions(frames, "ack") : AckedSequence(frames[k].data) = seq

(***************************************************************************)
(* C18 as stated: every inbound frame with a payload or the AckRequest     *)
(* flag is acknowledged with an ACK of the sequence in its bytes 10-11; a  *)
(* header-only frame without AckRequest that is no retransmit request is   *)
(* not acknowledged.                                                       *)
(***************************************************************************)
C18_Original ==
  [][ FrameAccepted(rx')
      => /\ AckExpected(rx')
            => Acknowledged(out', HeaderRemotePacketId(rx'))
         /\ (~AckExpected(rx')
             /\ ~CarriesFlag(rx', FLAG_RETRANSMIT_REQUEST))
            => Positions(out', "ack") = {} ]_vars

(***************************************************************************)
(* C18 amended: the policy holds for every inbound frame that is not       *)
(* accepted as the handshake response, and such a frame gets exactly one   *)
(* ACK; the frame accepted as the handshake response is acknowledged if    *)
(* and only if its sequence is not zero, whatever its flags and payload.   *)
(***************************************************************************)
C18_AckPolicy ==
  [][ FrameAccepted(rx')
      => IF HandshakeAccepted
           THEN IF HeaderRemotePacketId(rx') # 0
                  THEN /\ Cardinality(Positions(out', "ack")) = 1
                       /\ Acknowledged(out', HeaderRemotePacketId(rx'))
                  ELSE Positions(out', "ack") = {}
           ELSE /\ AckExpected(rx')
                   => /\ Cardinality(Positions(out', "ack")) = 1
                      /\ Acknowledged(out', HeaderRemotePacketId(rx'))
                /\ (~AckExpected(rx')
                    /\ ~CarriesFlag(rx', FLAG_RETRANSMIT_REQUEST))
                   => Positions(out', "ack") = {} ]_vars

\* runLoop() just read a frame with a payload and no AckRequest flag, and
\* acknowledged its sequence
C18_Witness ==
  /\ op = "runLoop"
  /\ Len(rx) > HEADER_SIZE
  /\ ~CarriesFlag(rx, FLAG_ACK_REQUEST)
  /\ HeaderRemotePacketId(rx) = 3
  /\ Cardinality(Positions(out, "ack")) = 1
  /\ Acknowledged(out, 3)

(***************************************************************************)
(* Observations of the command loop.                                       *)
(***************************************************************************)
\* the segments before the first one the loop must stop at
RECURSIVE BeforeStop(_)
BeforeStop(segments) ==
  IF segments = <<>> \/ Head(segments).kind = "stop"
    THEN <<>>
    ELSE << Head(segments) >> \o BeforeStop(Tail(segments))

\* what the segments are to do to the stored inputs
Expected(segments) ==
  Deduplicated(
    SelectSeq(BeforeStop(segments), LAMBDA g : g.kind = "block"),
    [program_input |-> program_input,
     preview_input |-> preview_input,
     hooks |-> <<>>])

\* the loop found the segments before the stop, one after the other, each
\* with its declared length, and nothing else; it never got past the end
\* of the payload and moved on by at least 8 bytes each time
WalkedAlong(segments) ==
  LET data == SegmentBytes(segments)
      found == ParseBlocks(data, 0)
      wanted == BeforeStop(segments)
  IN  /\ Len(found) = Len(wanted)
      /\ \A k \in DOMAIN found :
           /\ found[k].offset = Len(SegmentBytes(SubSeq(wanted, 1, k - 1)))
           /\ found[k].cmd_length = Len(wanted[k].bytes)
           /\ found[k].cmd_length >= 8
           /\ found[k].cmd_name = wanted[k].tag
           /\ found[k].offset + found[k].cmd_length <= Len(data)
      /\ Consumed(data) = Len(SegmentBytes(wanted))
      /\ Consumed(data) <= Len(data)

\* the stored inputs and the input hooks after the step are the expected
\* ones, and the frame did not change the connection state
AppliedAsExpected(segments) ==
  LET e == Expected(segments)
  IN  /\ program_input' = e.program_input
      /\ preview_input' = e.preview_input
      /\ InputHooks(hooks') = e.hooks
      /\ connection_state' = connection_state
      /\ HooksNamed(hooks', "onConnectionStateChanged") = <<>>

(***************************************************************************)
(* C19: the command loop stops in every payload that leaves fewer than 8   *)
(* bytes, declares a length below 8 or declares a length that overruns     *)
(* the payload: the blocks before that point are applied, nothing after    *)
(* it is, the connection state is left alone, and the loop never gets      *)
(* past the end of the payload, each round moving on by a declared length  *)
(* of at least 8.                                                          *)
(***************************************************************************)
C19_ParserHaltsSafely ==
  [][ \A p \in HaltingPayloads :
        Dispatched(SegmentBytes(p))
        => /\ WalkedAlong(p)
           /\ Consumed(SegmentBytes(p)) < Len(SegmentBytes(p))
           /\ AppliedAsExpected(p) ]_vars

\* runLoop() just read PrgI 3, a block of declared length 7 and PrvI 2:
\* the program input is 3 and the preview input is not 2
C19_Witness ==
  /\ op = "runLoop"
  /\ Len(rx) = HEADER_SIZE + 36
  /\ ParseBlocks(Slice(rx, HEADER_SIZE, 36), 0)
       = << [offset |-> 0, cmd_length |-> 12, cmd_name |-> TagPrgI,
             cmd_data |-> <<0, 0, 0, 3>>] >>
  /\ InputHooks(hooks) = << [hook |-> "onProgramInputChanged", arg |-> 3] >>
  /\ program_input = 3
  /\ preview_input = 0

(***************************************************************************)
(* C20: a block with a tag the engine has no handler for is passed over    *)
(* by its declared length: it changes no stored input and invokes no       *)
(* hook, the connection state is left alone, and the blocks after it are   *)
(* applied as if it were not there; a payload of such blocks alone marks   *)
(* nothing as changed.                                                     *)
(***************************************************************************)
C20_UnknownTagSkipped ==
  [][ \A p \in UnknownTagPayloads :
        Dispatched(SegmentBytes(p))
        => /\ WalkedAlong(p)
           /\ Consumed(SegmentBytes(p)) = Len(SegmentBytes(p))
           /\ AppliedAsExpected(p)
           /\ (\A k \in DOMAIN p : p[k].kind = "skipped")
              => /\ op' = "connect" => state_dirty' = state_dirty
                 /\ op' = "runLoop"
                    => /\ state_dirty' = FALSE
                       /\ HooksNamed(hooks', "onStateChanged") # <<>>
                            <=> state_dirty ]_vars

\* runLoop() just read a 16-byte block with an unknown tag between PrgI 1
\* and PrgI 3, and applied both
C20_Witness ==
  /\ op = "runLoop"
  /\ Len(rx) = HEADER_SIZE + 40
  /\ Slice(rx, HEADER_SIZE + 16, 4) = TagTime
  /\ InputHooks(hooks) = << [hook |-> "onProgramInputChanged", arg |-> 1],
                            [hook |-> "onProgramInputChanged", arg |-> 3] >>
  /\ program_input = 3

(***************************************************************************)
(* The application and the switcher state: a handshake and a frame that    *)
(* reports program input 3 and preview input 2, while the application      *)
(* calls the four control operations.  No time passes between the calls,   *)
(* so that no heartbeat falls due.                                         *)
(***************************************************************************)
ControlFrames ==
  { PeerFrame(FLAG_NEW_SESSION_ID, SidA, 0, 1, <<>>),
    PeerFrame(FLAG_ACK_REQUEST, SidA, 0, 2,
              Block(TagPrgI, 3) \o Block(TagPrvI, 2)) }

NextControl ==
  \/ Begin
  \/ ConnectPoll(ControlFrames)
  \/ ConnectTimeout
  \/ RunLoop(ControlFrames)
  \/ ChangeProgramInput
  \/ ChangePreviewInput
  \/ Cut
  \/ AutoTransition

SpecControl == Init /\ [][NextControl]_vars

\* the operations that send a control command
ControlOperations ==
  {"changeProgramInput", "changePreviewInput", "cut", "autoTransition"}

\* the switcher state getState() returns
SwitcherState ==
  << program_input, preview_input, in_transition, transition_position >>

\* the blocks of the payload the last datagram carried
ReceivedBlocks(packet) ==
  IF Len(packet) > HEADER_SIZE
    THEN ParseBlocks(Slice(packet, HEADER_SIZE, Len(packet) - HEADER_SIZE), 0)
    ELSE <<>>

\* the datagram carried a block with the given tag and input
Reported(packet, tag, input) ==
  \E k \in DOMAIN ReceivedBlocks(packet) :
     /\ ReceivedBlocks(packet)[k].cmd_name = tag
     /\ ReadU16(ReceivedBlocks(packet)[k].cmd_data, 2) = input

C22_OneStateChangedPerLoop ==
  [][ LET changed == state_dirty \/ InputHooks(hooks') # <<>>
      IN  IF op' = "runLoop"
            THEN /\ state_dirty' = FALSE
                 /\ Cardinality({ k \in DOMAIN hooks' :
                                    hooks'[k].hook = "onStateChanged" })
                      = IF changed THEN 1 ELSE 0
                 /\ changed => hooks'[Len(hooks')].hook = "onStateChanged"
            ELSE /\ HooksNamed(hooks', "onStateChanged") = <<>>
                 /\ state_dirty' = changed ]_vars

\* a call that changed both inputs: two per-field hooks, then the one
\* state-changed hook
C22_Witness ==
  /\ op = "runLoop"
  /\ Len(hooks) = 3
  /\ Len(InputHooks(hooks)) = 2
  /\ hooks[3].hook = "onStateChanged"
  /\ ~state_dirty

(***************************************************************************)
(* C23: a runLoop() call reads at most one datagram and hands at most one  *)
(* frame to the transport, whatever the datagram is and whether or not a   *)
(* heartbeat is due.                                                       *)
(***************************************************************************)
C23_AtMostOneSend ==
  [][ op' = "runLoop" => Len(out') <= 1 ]_vars

\* one call that answered a retransmit request with the retained heartbeat,
\* acknowledged the request and sent the heartbeat that was due
C23_ThreeFrames ==
  /\ op = "runLoop"
  /\ CarriesFlag(rx, FLAG_RETRANSMIT_REQUEST)
  /\ Len(out) = 3
  /\ out[1].kind = "resend"
  /\ out[2].kind = "ack"
  /\ out[3].kind = "heartbeat"

(***************************************************************************)
(* Observations of the ring buffer.                                        *)
(***************************************************************************)
\* the slots that hold a frame
Occupied == { i \in Slots : sent_packets[i].in_use }

\* the heartbeats and commands this step built, each of which it stored
BuiltReliable == SelectSeq(out', IsReliable)

(***************************************************************************)
(* C24: the ring buffer never holds more frames than it has slots and the  *)
(* write index stays within the slots.  A step that builds a heartbeat or  *)
(* a command writes it into the slot at the write index and into no other  *)
(* and moves the index on by one, wrapping; once every slot holds a frame  *)
(* that slot is the one whose frame was inserted earliest, so the buffer   *)
(* holds the frames stored last.  A step that builds none leaves the       *)
(* buffer alone.                                                           *)
(***************************************************************************)
C24_RingOverwritesEarliest ==
  [][ /\ Cardinality(Occupied') <= MAX_RETRANSMIT_PACKETS
      /\ packet_buffer_index' \in 0 .. (MAX_RETRANSMIT_PACKETS - 1)
      /\ Len(BuiltReliable) <= 1
      /\ IF BuiltReliable = <<>>
            THEN /\ sent_packets' = sent_packets
                 /\ packet_buffer_index' = packet_buffer_index
            ELSE /\ sent_packets' =
                      [sent_packets EXCEPT ![packet_buffer_index] =
                         [in_use |-> TRUE,
                          packet_id |-> FrameSequence(BuiltReliable[1].data),
                          data |-> BuiltReliable[1].data]]
                 /\ packet_buffer_index' =
                      (packet_buffer_index + 1) % MAX_RETRANSMIT_PACKETS
                 /\ Occupied = Slots
                      => /\ packet_buffer_index = Head(insertions)
                         /\ insertions' =
                              Append(Tail(insertions), packet_buffer_index)
      ]_vars

\* a command has just overwritten the earliest of the frames of a full
\* buffer: the buffer holds the two frames stored last
C24_Witness ==
  /\ op = "cut"
  /\ Occupied = Slots
  /\ Len(insertions) = MAX_RETRANSMIT_PACKETS
  /\ packet_buffer_index = Head(insertions)
  /\ local_packet_id > MAX_RETRANSMIT_PACKETS + 1
  /\ \A i \in Slots :
        sent_packets[i].packet_id >= local_packet_id - MAX_RETRANSMIT_PACKETS

(***************************************************************************)
(* C25: the highest remote sequence seen never decreases: no step, be it   *)
(* a frame read in any connection state or a handshake of a first or a     *)
(* later connect(), leaves it lower than it was.                           *)
(***************************************************************************)
C25_RemoteSequenceNeverDecreases ==
  [][ remote_packet_id' >= remote_packet_id ]_vars

(***************************************************************************)
(* C26: a control command the transport refuses is dropped: the step       *)
(* leaves no ring-buffer entry holding the refused frame.                  *)
(***************************************************************************)
C26_RefusedCommandNotRetained ==
  [][ \A k \in DOMAIN out' :
        ( /\ op' \in ControlOperations
          /\ out'[k].kind = "command"
          /\ ~out'[k].ok )
        => \A i \in Slots :
             ~( sent_packets'[i].in_use
                /\ sent_packets'[i].data = out'[k].data ) ]_vars

\* in the first session, a retransmit request is answered with a command
\* frame whose sequence is the one the engine has still to use: the
\* transport refused that frame when it was built, and it is sent now
C26_RefusedCommandResent ==
  /\ op = "runLoop"
  /\ connects = 1
  /\ connection_state = ATEM_CONNECTED
  /\ \E k \in Positions(out, "resend") :
        /\ Len(out[k].data) > HEADER_SIZE
        /\ HeaderSessionId(out[k].data) = session_id
        /\ FrameSequence(out[k].data) = local_packet_id

(***************************************************************************)
(* The operations without a wire format.  Each of them is a void function  *)
(* that writes two lines to the log and returns: it touches no field,      *)
(* builds no frame and invokes no hook.                                    *)
(***************************************************************************)
UnimplementedOperations ==
  { "fadeToBlack", "setFadeToBlackRate", "setTransitionPosition",
    "previewTransition", "setAuxSource", "setDownstreamKeyOnAir",
    "autoDownstreamKey", "setUpstreamKeyerOnAir",
    "setUpstreamKeyerCutSource", "setUpstreamKeyerFillSource",
    "setColorGeneratorColour", "setMediaPlayerSource",
    "setMultiViewerWindowSource", "setClassicAudioMixerInputGain",
    "setClassicAudioMixerMasterGain" }

\* a variant that sends a command frame of its own
NotImplemented_SendsFrame(s) == SendCommand(s, TagDCut, 0, TRUE)

\* the body they share
NotImplemented(s) == s

CallUnimplemented ==
  /\ pc = "idle"
  /\ \E name \in UnimplementedOperations :
       Commit(NotImplemented(Cur), name, NoPacket, "void")
  /\ UNCHANGED << pc, waited, connects >>

\* the application connects and calls cut(), which has a wire format, and
\* the operations that have none
UnsupportedFrames == { PeerFrame(FLAG_NEW_SESSION_ID, SidA, 0, 1, <<>>) }

NextUnsupported ==
  \/ Begin
  \/ ConnectPoll(UnsupportedFrames)
  \/ ConnectTimeout
  \/ Cut
  \/ CallUnimplemented

SpecUnsupported == Init /\ [][NextUnsupported]_vars

(***************************************************************************)
(* C27: a call of an operation without a wire format tells the caller that *)
(* the operation is unsupported: what it gives back, its result and the    *)
(* hooks it invokes, differs from what a supported operation that was sent *)
(* gives back, which is no result and no hook.                             *)
(***************************************************************************)
C27_UnsupportedIsReported ==
  [][ op' \in UnimplementedOperations
      => (ret' # "void" \/ hooks' # <<>>) ]_vars

\* fadeToBlack() has returned while connected: no result, no hook, no
\* frame, as little as the caller gets from a cut() that was sent
C27_SilentReturn ==
  /\ op = "fadeToBlack"
  /\ connection_state = ATEM_CONNECTED
  /\ ret = "void"
  /\ hooks = <<>>
  /\ out = <<>>

(***************************************************************************)
(* The frames the engine builds: a handshake that assigns session SidB, a  *)
(* frame that asks for an ACK, the heartbeats of runLoop() and the four    *)
(* control commands.                                                       *)
(***************************************************************************)
LayoutFrames ==
  { PeerFrame(FLAG_NEW_SESSION_ID, SidB, 0, 1, <<>>),
    PeerFrame(FLAG_ACK_REQUEST, SidB, 0, 258, <<>>) }

NextLayout ==
  \/ Begin
  \/ ConnectPoll(LayoutFrames)
  \/ ConnectTimeout
  \/ RunLoop(LayoutFrames)
  \/ ChangeProgramInput
  \/ ChangePreviewInput
  \/ Cut
  \/ AutoTransition
  \/ Tick

SpecLayout == Init /\ [][NextLayout]_vars

\* bytes first .. last of a frame, counted from 0
Bytes(data, first, last) == Slice(data, first, last - first + 1)

C29_ShortDatagramIgnored ==
  [][ (0 < Len(rx') /\ Len(rx') < HEADER_SIZE)
      => /\ session_id' = session_id
         /\ remote_packet_id' = remote_packet_id
         /\ SwitcherState' = SwitcherState
         /\ state_dirty' = state_dirty
         /\ Positions(out', "ack") = {}
         /\ Positions(out', "resend") = {}
         /\ InputHooks(hooks') = <<>>
         /\ HooksNamed(hooks', "onStateChanged") = <<>>
         /\ since_received' >= since_received
         /\ IF /\ op' = "runLoop"
               /\ connection_state = ATEM_CONNECTED
               /\ since_received > CONNECTION_TIMEOUT
              THEN /\ connection_state' = ATEM_ERROR
                   /\ hooks' = << [hook |-> "onConnectionStateChanged",
                                   arg |-> ATEM_ERROR] >>
              ELSE /\ connection_state' = connection_state
                   /\ hooks' = <<>> ]_vars

\* a runLoop() call read a short datagram and declared the connection
\* lost all the same
C29_Witness ==
  /\ op = "runLoop"
  /\ Len(rx) = 5
  /\ connection_state = ATEM_ERROR
  /\ hooks = << [hook |-> "onConnectionStateChanged", arg |-> ATEM_ERROR] >>
  /\ since_received > CONNECTION_TIMEOUT

RequestedInput(data) == ReadU16(data, 22)

\* this step is a call of the given operation that built a command frame
CommandBuilt(name) ==
  /\ op' = name
  /\ Len(out') = 1
  /\ out'[1].kind = "command"

C32_Original ==
  [][ Positions(out', "resend") # {}
      => /\ op' = "runLoop"
         /\ CarriesFlag(rx', FLAG_RETRANSMIT_REQUEST) ]_vars

(***************************************************************************)
(* The part of C32 the engine keeps:                                       *)
(* a frame of the ring buffer is sent again only by a step that reads      *)
(* a frame with the RetransmitRequest flag and does not take it as the     *)
(* handshake response; the step is a runLoop() call or an iteration of the *)
(* wait loop of connect().  A step that reads no such frame, a control     *)
(* operation, the first step of connect() and disconnect() resend nothing. *)
(***************************************************************************)
C32_ResendOnlyOnRequest ==
  [][ Positions(out', "resend") # {}
      => /\ RetransmitHandled
         /\ \/ op' = "runLoop"
            \/ op' = "connect" /\ pc = "connect_wait" ]_vars

\* the wait loop of connect() read a retransmit request and resent a frame
C32_Witness ==
  /\ op = "connect"
  /\ CarriesFlag(rx, FLAG_RETRANSMIT_REQUEST)
  /\ ~CarriesFlag(rx, FLAG_NEW_SESSION_ID)
  /\ Positions(out, "resend") # {}
  /\ connection_state = ATEM_CONNECTING

(***************************************************************************)
(* Frames whose header declares a length that is or is not their size: a   *)
(* handshake response, a header-only frame that asks for an ACK and a      *)
(* frame with a program-input block, each declaring 0, 12, 24 and 2047     *)
(* bytes.                                                                  *)
(***************************************************************************)
DeclaredLengths == {0, 12, 24, 2047}

LengthShapes ==
  { [flags |-> FLAG_NEW_SESSION_ID, seq |-> 1, payload |-> <<>>],
    [flags |-> FLAG_ACK_REQUEST, seq |-> 2, payload |-> <<>>],
    [flags |-> 0, seq |-> 3, payload |-> Block(TagPrgI, 3)] }

LengthFrames ==
  { PeerHeader(f.flags, d, SidA, 0, f.seq) \o f.payload :
      f \in LengthShapes, d \in DeclaredLengths }

NextLength ==
  \/ Begin
  \/ ConnectPoll(LengthFrames)
  \/ ConnectTimeout
  \/ RunLoop(LengthFrames)
  \/ Tick

SpecLength == Init /\ [][NextLength]_vars

\* the same bytes with the declared length set to their number
Redeclared(packet) ==
  << HeaderFlags(packet) * 8 + (Len(packet) \div 256), Len(packet) % 256 >>
  \o Slice(packet, 2, Len(packet) - 2)

Mismatched(packet) ==
  Len(packet) >= HEADER_SIZE /\ HeaderLength(packet) # Len(packet)

\* the ACKs among a call's output
Acks(frames) == SelectSeq(frames, LAMBDA f : f.kind = "ack")

\* the step ends as the object e does
SameOutcome(e, called) ==
  /\ connection_state' = e.connection_state
  /\ session_id' = e.session_id
  /\ remote_packet_id' = e.remote_packet_id
  /\ Acks(out') = Acks(e.out)
  /\ program_input' = e.program_input
  /\ preview_input' = e.preview_input
  /\ state_dirty' = e.state_dirty
  /\ since_received' = e.since_received
  /\ hooks' = called

(***************************************************************************)
(* C33: a frame of at least 12 bytes whose header declares a length that   *)
(* is not the number of bytes received is handled like the same bytes      *)
(* with the right length declared: the step that reads it, in runLoop()    *)
(* or in the wait loop of connect(), ends with the connection state, the   *)
(* session id, the remote sequence, the ACKs, the stored inputs and the    *)
(* hooks it would end with had it read that frame.                         *)
(***************************************************************************)
C33_DeclaredLengthIgnored ==
  [][ Mismatched(rx')
      => /\ op' = "runLoop"
            => \E hb_ok \in BOOLEAN :
                 LET e == runLoop(Cur, Redeclared(rx'), hb_ok)
                 IN  SameOutcome(e, e.hooks)
         /\ op' = "connect"
            => LET e == processIncomingPacket(Cur, Redeclared(rx'))
               IN  IF e.connection_state = ATEM_CONNECTED
                     THEN SameOutcome(e, Append(e.hooks,
                                                ConnectionHook(ATEM_CONNECTED)))
                     ELSE SameOutcome(Elapse(e), e.hooks) ]_vars

\* runLoop() read a 24-byte frame that declares 12 bytes, acknowledged it
\* and applied its block
C33_Witness ==
  /\ op = "runLoop"
  /\ Len(rx) = 24
  /\ HeaderLength(rx) = 12
  /\ Acknowledged(out, 3)
  /\ program_input = 3
  /\ InputHooks(hooks) = << [hook |-> "onProgramInputChanged", arg |-> 3] >>

(***************************************************************************)
(* C34: a call of an operation without a wire format, in whatever          *)
(* connection state and after whatever calls, hands no frame to the        *)
(* transport and leaves the ring buffer, its write index, the local        *)
(* sequence, the connection state, the session id and the switcher state   *)
(* as they were; it invokes no hook either.                                *)
(***************************************************************************)
C34_StubsChangeNothing ==
  [][ op' \in UnimplementedOperations
      => /\ out' = <<>>
         /\ hooks' = <<>>
         /\ sent_packets' = sent_packets
         /\ packet_buffer_index' = packet_buffer_index
         /\ local_packet_id' = local_packet_id
         /\ connection_state' = connection_state
         /\ session_id' = session_id
         /\ SwitcherState' = SwitcherState
         /\ state_dirty' = state_dirty ]_vars

\* setTransitionPosition() was called while connected, after a cut() that
\* was stored with sequence 1: the local sequence is still 2 and the
\* transition position still 0
C34_Witness ==
  /\ op = "setTransitionPosition"
  /\ connection_state = ATEM_CONNECTED
  /\ local_packet_id = 2
  /\ sent_packets[0].in_use
  /\ ~sent_packets[1].in_use
  /\ transition_position = 0
  /\ out = <<>>

(***************************************************************************)
(* C35: a handled retransmit request for sequence N resends no retained    *)
(* entry whose sequence is lower than N, whatever the ring buffer holds.   *)
(* The code resends every occupied slot after the one that holds N, so     *)
(* this fails once the ring buffer has wrapped.                            *)
(***************************************************************************)
C35_NothingBelowRequested ==
  [][ RetransmitHandled
      => \A i \in ResentSlots(out') :
           sent_packets[i].packet_id >= HeaderAckedPacketId(rx') ]_vars

\* in the first session and with no frame refused, a request for sequence
\* 3 was answered with the frame of sequence 2 as well
C35_OlderFrameResent ==
  /\ op = "runLoop"
  /\ connects = 1
  /\ CarriesFlag(rx, FLAG_RETRANSMIT_REQUEST)
  /\ HeaderAckedPacketId(rx) = 3
  /\ \E k \in Positions(out, "resend") : FrameSequence(out[k].data) = 2
  /\ \A i \in Slots : sent_packets[i].packet_id < local_packet_id

(***************************************************************************)
(* Retransmission across sessions: the handshake assigns session SidA, the *)
(* application sends commands and may disconnect and connect again, and    *)
(* the peer sends retransmit requests under session SidA and SidB.         *)
(***************************************************************************)
SessionFrames ==
  { PeerFrame(FLAG_NEW_SESSION_ID, SidA, 0, 1, <<>>),
    PeerFrame(FLAG_RETRANSMIT_REQUEST, SidA, 1, 2, <<>>),
    PeerFrame(FLAG_RETRANSMIT_REQUEST, SidB, 1, 2, <<>>) }

NextSession ==
  \/ Begin
  \/ Connect
  \/ ConnectPoll(SessionFrames)
  \/ ConnectTimeout
  \/ Disconnect
  \/ RunLoop(SessionFrames)
  \/ Cut
  \/ Tick

SpecSession == Init /\ [][NextSession]_vars

(***************************************************************************)
(* C36: every frame resent in answer to a retransmit request carries, in   *)
(* bytes 2-3, the session id the engine holds when it resends it, so no    *)
(* frame stored under an earlier session id is resent.                     *)
(***************************************************************************)
C36_ResentInCurrentSession ==
  [][ \A k \in Positions(out', "resend") :
        HeaderSessionId(out'[k].data) = session_id' ]_vars

\* in the first session, after the peer's frame changed the session id to
\* SidB, the same call resent a frame built under SidA
C36_OtherSessionResent ==
  /\ op = "runLoop"
  /\ connects = 1
  /\ connection_state = ATEM_CONNECTED
  /\ session_id = SidB
  /\ \E k \in Positions(out, "resend") :
        HeaderSessionId(out[k].data) = SidA

(***************************************************************************)
(* C37: a runLoop() call made while the connection state is Disconnected   *)
(* or Error hands no frame to the transport and leaves the switcher state  *)
(* as it was, whatever it reads.                                           *)
(***************************************************************************)
C37_QuietWhenNotConnected ==
  [][ ( /\ op' = "runLoop"
        /\ connection_state \in {ATEM_DISCONNECTED, ATEM_ERROR} )
      => /\ out' = <<>>
         /\ SwitcherState' = SwitcherState ]_vars

\* a runLoop() call made in the Error state read a frame with a
\* program-input block, acknowledged it and stored the input
C37_ActiveInError ==
  /\ op = "runLoop"
  /\ connection_state = ATEM_ERROR
  /\ HooksNamed(hooks, "onConnectionStateChanged") = <<>>
  /\ Len(rx) > HEADER_SIZE
  /\ Acknowledged(out, HeaderRemotePacketId(rx))
  /\ program_input = 3
  /\ InputHooks(hooks) = << [hook |-> "onProgramInputChanged", arg |-> 3] >>

(***************************************************************************)
(* C38: changeProgramInput, changePreviewInput, cut and autoTransition     *)
(* called while the connection state is not Connected hand no frame to the *)
(* transport and leave the ring buffer, its write index and the local      *)
(* sequence as they were.                                                  *)
(***************************************************************************)
C38_NoCommandUnlessConnected ==
  [][ ( /\ op' \in ControlOperations
        /\ connection_state # ATEM_CONNECTED )
      => /\ out' = <<>>
         /\ sent_packets' = sent_packets
         /\ packet_buffer_index' = packet_buffer_index
         /\ insertions' = insertions
         /\ local_packet_id' = local_packet_id ]_vars

\* autoTransition() was called in the Error state a handshake timeout left
C38_Witness ==
  /\ op = "autoTransition"
  /\ connection_state = ATEM_ERROR
  /\ out = <<>>
  /\ local_packet_id = 1
  /\ \A i \in Slots : ~sent_packets[i].in_use

(***************************************************************************)
(* C39: a step that sends an ACK or answers a retransmit request resends   *)
(* each frame exactly as the slot it comes from holds it, and, unless the  *)
(* same runLoop() call goes on to send the heartbeat that is due, leaves   *)
(* the local sequence, every slot of the ring buffer and its write index   *)
(* as they were.  If it does send the heartbeat, the heartbeat comes after *)
(* the ACK and the resends and only its slot changes.                      *)
(***************************************************************************)
C39_AckAndResendKeepState ==
  [][ (Positions(out', "ack") \cup Positions(out', "resend")) # {}
      => /\ \A k \in Positions(out', "resend") :
              /\ sent_packets[out'[k].slot].in_use
              /\ out'[k].data = sent_packets[out'[k].slot].data
         /\ IF BuiltReliable = <<>>
              THEN /\ local_packet_id' = local_packet_id
                   /\ sent_packets' = sent_packets
                   /\ packet_buffer_index' = packet_buffer_index
                   /\ insertions' = insertions
              ELSE /\ op' = "runLoop"
                   /\ out'[Len(out')].kind = "heartbeat"
                   /\ Len(BuiltReliable) = 1
                   /\ local_packet_id' = (local_packet_id + 1) % U16Mod
                   /\ \A i \in Slots \ {packet_buffer_index} :
                        sent_packets'[i] = sent_packets[i] ]_vars

\* a retransmit request was answered with both stored frames and an ACK,
\* and nothing else: the local sequence and the slots are what three
\* accepted sends left
C39_Witness ==
  /\ op = "runLoop"
  /\ connects = 1
  /\ Len(out) = 3
  /\ out[1].kind = "resend" /\ out[1].data = sent_packets[0].data
  /\ out[2].kind = "resend" /\ out[2].data = sent_packets[1].data
  /\ out[3].kind = "ack"
  /\ local_packet_id = 4
  /\ sent_packets[0].packet_id = 3
  /\ sent_packets[1].packet_id = 2

(***************************************************************************)
(* C40: an operation that takes the connection state into Error invokes    *)
(* onConnectionStateChanged(Error) exactly once before it returns, be the  *)
(* cause a handshake timeout, the transport refusing the handshake frame   *)
(* or inbound silence.                                                     *)
(***************************************************************************)
C40_ErrorAlwaysNotified ==
  [][ (connection_state # ATEM_ERROR /\ connection_state' = ATEM_ERROR)
      => SelectSeq(hooks', LAMBDA h : h = ConnectionHook(ATEM_ERROR))
           = << ConnectionHook(ATEM_ERROR) >> ]_vars

\* connect() returned false in the Error state because the transport
\* refused the handshake frame, and invoked no hook
C40_SilentError ==
  /\ op \in {"connect", "begin"}
  /\ pc = "idle"
  /\ ret = "false"
  /\ connection_state = ATEM_ERROR
  /\ \E k \in Positions(out, "hello") : ~out[k].ok
  /\ hooks = <<>>

====
